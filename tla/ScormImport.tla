------------------------------ MODULE ScormImport -----------------------------
(***************************************************************************)
(* The packages of one imported SCORM course: an import started by an admin  *)
(* and carried on by whoever polls it (admins, the daily cron), the course's  *)
(* one tree of SCORM sections, which each package replaces, the switch that   *)
(* shows the course to learners, the sweep of superseded packages and the     *)
(* destruction of the course.                                               *)
(*                                                                          *)
(* A request is a process; each wait for SCORM Cloud or for the database      *)
(* separates two of its steps, and it can be killed at any of them.           *)
(* Packages are their version numbers.  0 stands for no package.              *)
(***************************************************************************)
EXTENDS Naturals, FiniteSets

CONSTANTS
  Admins,       \* requests of admins
  Cron,         \* the daily cron
  MaxPackages,  \* bound on the imports of the course
  MayCrash,
  MayDestroy

Workers  == Admins \cup {Cron}
Packages == 1 .. MaxPackages

ASSUME ImportAssumption ==
  /\ Cron \notin Admins /\ IsFiniteSet(Admins)
  /\ MaxPackages \in Nat
  /\ {MayCrash, MayDestroy} \subseteq BOOLEAN

VARIABLES
  pkg,        \* the ScormPackage rows
  cloud,      \* the course and its import job on SCORM Cloud
  course,     \* absent, present or deleted
  active,     \* isActive of the course
  live,       \* the package whose sections are not archived
  published,  \* the package in the latest published version
  partial,    \* the newest package when a destruction was last left unfinished
  pinned,     \* the package in the version that an enrolment is pinned to
  worker,
  raced,      \* history: an import ran into a destruction, or into another import
              \* that created the course and may still take it back
  refused     \* history: the packages whose Cloud course Cloud refused to delete, in
              \* the last destruction that tried

courseVars == <<course, active, live, published, partial, pinned>>
vars       == <<pkg, cloud, courseVars, worker, raced, refused>>

\* The age of a row, by the caps it has passed: 10 minutes, 24 and 72 hours.
Unstarted == 1
Stale     == 2
HardCap   == 3

Statuses == {"none", "PROCESSING", "READY", "FAILED", "SUPERSEDED", "PRUNED"}
Row      == [status : Statuses, job : BOOLEAN, tree : BOOLEAN, age : 0 .. HardCap]
NoRow    == [status |-> "none", job |-> FALSE, tree |-> FALSE, age |-> 0]
Clouds   == {"none", "running", "complete", "error", "gone"}
OnCloud  == {"running", "complete", "error"}

Destroying == {"close", "purge", "settle", "teardown"}
Starting   == {"start", "upload", "record", "reject", "late", "cleanup"}
Undoing    == {"undo", "undoCourse"}
Polling    == {"ask", "prepare", "build", "finish", "publish", "ready"}
Steps      == {"idle", "activate", "prune", "pruned"}
                \cup Destroying \cup Starting \cup Undoing \cup Polling

\* of is the package worked on, then what follows a poll, made tells that the
\* course was created with the package, tree what a publish has read, and todo
\* and done the Cloud courses of a destruction.
Worker == [pc : Steps, of : Packages \cup {0}, then : {"idle", "start"},
           made : BOOLEAN, tree : Packages \cup {0},
           todo : SUBSET Packages, done : SUBSET Packages]
Idle   == [pc |-> "idle", of |-> 0, then |-> "idle", made |-> FALSE, tree |-> 0,
           todo |-> {}, done |-> {}]

At(p, step)       == worker[p].pc = step
Become(p, record) == worker' = [worker EXCEPT ![p] = record]
Goto(p, step)     == Become(p, [worker[p] EXCEPT !.pc = step])

Exists(n)     == pkg[n].status # "none"
InStatus(s)   == {n \in Packages : pkg[n].status = s}
Newest        == CHOOSE n \in Packages \cup {0} :
                   /\ n # 0 => Exists(n)
                   /\ \A m \in Packages : Exists(m) => m <= n
Mark(n, s)    == pkg' = [pkg EXCEPT ![n].status = s]
MarkIf(b, n, s) == IF b THEN Mark(n, s) ELSE UNCHANGED pkg

\* A poll answers; a re-import that polled first goes on.
Answer(p) == Become(p, [Idle EXCEPT !.pc = worker[p].then])

-----------------------------------------------------------------------------
Init ==
  /\ pkg = [n \in Packages |-> NoRow]
  /\ cloud = [n \in Packages |-> "none"]
  /\ course \in {"absent", "present"}
  /\ active = FALSE
  /\ live = 0
  /\ published = 0
  /\ partial = 0
  /\ pinned = 0
  /\ worker = [p \in Workers |-> Idle]
  /\ raced = FALSE /\ refused = {}

\* A row in flight ages, never past an older one.
Age(n) ==
  /\ pkg[n].status = "PROCESSING" /\ pkg[n].age < HardCap
  /\ pkg' = [pkg EXCEPT ![n].age = @ + 1]
  /\ UNCHANGED <<cloud, courseVars, worker, raced, refused>>

\* SCORM Cloud works on an accepted upload.
CloudWork(n) ==
  /\ cloud[n] = "running"
  /\ \E result \in {"complete", "error"} : cloud' = [cloud EXCEPT ![n] = result]
  /\ UNCHANGED <<pkg, courseVars, worker, raced, refused>>

\* An upload that was cut off may have reached Cloud all the same.
Crash(p) ==
  /\ MayCrash /\ ~At(p, "idle")
  /\ \E reached \in IF At(p, "upload") THEN BOOLEAN ELSE {FALSE} :
       cloud' = IF reached THEN [cloud EXCEPT ![worker[p].of] = "running"] ELSE cloud
  /\ Become(p, Idle)
  /\ UNCHANGED <<pkg, courseVars, raced, refused>>

-----------------------------------------------------------------------------
(* The ways a row in flight is given up.  Each write is conditional. *)

\* Mutant: a row whose tree is built is failed like any other.
UnbuiltOrNot(n) == pkg[n].status = "PROCESSING"

\* failIfStale and failIfUnbuilt: never once the tree is built.
Unbuilt(n) == pkg[n].status = "PROCESSING" /\ ~pkg[n].tree

\* staleProcessingReason
IsStale(n) == pkg[n].age >= IF pkg[n].job THEN Stale ELSE Unstarted

\* Mutant: the hard cap spares a row whose tree is built.
PastHardCapUnbuilt(n) ==
  pkg[n].status = "PROCESSING" /\ ~pkg[n].tree /\ pkg[n].age = HardCap

\* failIfPastHardCap: whatever Cloud says, tree or no tree.
PastHardCap(n) == pkg[n].status = "PROCESSING" /\ pkg[n].age = HardCap

-----------------------------------------------------------------------------
(* completeImportIfReady *)

\* A poll reads the row; a row nobody is working on any more is left as it is.
PollRow(p, n, then) ==
  LET poll == [Idle EXCEPT !.of = n, !.then = then]
      Wait(step) == Become(p, [poll EXCEPT !.pc = step]) /\ UNCHANGED pkg
      Fail(b) == MarkIf(b, n, "FAILED") /\ Become(p, [Idle EXCEPT !.pc = then])
  IN  IF pkg[n].status # "PROCESSING" \/ PastHardCap(n) THEN Fail(PastHardCap(n))
      ELSE IF pkg[n].tree THEN Wait("finish")
      ELSE IF ~pkg[n].job THEN Fail(Unbuilt(n) /\ IsStale(n))
      ELSE Wait("ask")

Poll(p) ==
  /\ At(p, "idle")
  /\ \E n \in InStatus("PROCESSING") : PollRow(p, n, "idle")
  /\ UNCHANGED <<cloud, courseVars, raced, refused>>

\* The cap counts only when Cloud was asked and did not answer COMPLETE.  No
\* answer to a course that is gone: the poll fails.
AskCloud(p) ==
  LET n == worker[p].of IN
  /\ At(p, "ask")
  /\ \/ /\ MarkIf(Unbuilt(n) /\ IsStale(n), n, "FAILED")   \* running, or timed out
        /\ Answer(p)
     \/ /\ cloud[n] = "error"
        /\ MarkIf(pkg[n].status = "PROCESSING", n, "FAILED")
        /\ Answer(p)
     \/ /\ cloud[n] \notin OnCloud
        /\ Answer(p) /\ UNCHANGED pkg
     \/ /\ cloud[n] = "complete"
        /\ Goto(p, "prepare") /\ UNCHANGED pkg
  /\ UNCHANGED <<cloud, courseVars, raced, refused>>

\* Launch settings, the probe for lessons and the gate on the completion rule:
\* a time-out leaves the row to the next poll, a refusal fails it.
Prepare(p) ==
  /\ At(p, "prepare")
  /\ \/ Answer(p) /\ UNCHANGED pkg
     \/ Answer(p) /\ MarkIf(Unbuilt(worker[p].of), worker[p].of, "FAILED")
     \/ Goto(p, "build") /\ UNCHANGED pkg
  /\ UNCHANGED <<cloud, courseVars, raced, refused>>

\* Mutant: the tree is built for the row that the poll read at first.
StillUnbuiltAlways(n) == Exists(n)

\* The row is locked and read again before its tree is built.
StillUnbuilt(n) == Unbuilt(n)

\* buildOrReplaceTree: the sections of every earlier package are archived, the
\* newest READY package is superseded and the sections of this one go live.
WithTree(n) ==
  LET ready == InStatus("READY") \ {n} IN
  [m \in Packages |->
     IF m = n THEN [pkg[n] EXCEPT !.tree = TRUE]
     ELSE IF m \in ready /\ \A k \in ready : k <= m
     THEN [pkg[m] EXCEPT !.status = "SUPERSEDED"]
     ELSE pkg[m]]

\* A busy lock leaves the row to the next poll, any other failure fails it.
Build(p) ==
  LET n == worker[p].of IN
  /\ At(p, "build")
  /\ \/ IF StillUnbuilt(n)
        THEN pkg' = WithTree(n) /\ live' = n /\ Goto(p, "finish")
        ELSE Answer(p) /\ UNCHANGED <<pkg, live>>
     \/ Answer(p) /\ UNCHANGED <<pkg, live>>
     \/ Answer(p) /\ MarkIf(Unbuilt(n), n, "FAILED") /\ UNCHANGED live
  /\ UNCHANGED <<cloud, course, active, published, partial, pinned, raced, refused>>

\* finishPublishAndReady reads the row again; the publish takes the course's lock
\* and reads the live tree, or is refused.
Finish(p) ==
  /\ At(p, "finish")
  /\ \/ /\ pkg[worker[p].of].status = "PROCESSING"
        /\ \A q \in Workers : ~At(q, "publish")
        /\ Become(p, [worker[p] EXCEPT !.pc = "publish", !.tree = live])
     \/ Answer(p)
  /\ UNCHANGED <<pkg, cloud, courseVars, raced, refused>>

\* The version is committed, or the publish fails.
Publish(p) ==
  /\ At(p, "publish")
  /\ \/ /\ course = "present"
        /\ published' = worker[p].tree
        /\ Become(p, [worker[p] EXCEPT !.pc = "ready", !.tree = 0])
     \/ Answer(p) /\ UNCHANGED published
  /\ UNCHANGED <<pkg, cloud, course, active, live, partial, pinned, raced, refused>>

\* The write of READY is conditional on the row still being in flight.
MarkReady(p) ==
  /\ At(p, "ready")
  /\ MarkIf(pkg[worker[p].of].status = "PROCESSING", worker[p].of, "READY")
  /\ Answer(p)
  /\ UNCHANGED <<cloud, courseVars, raced, refused>>

-----------------------------------------------------------------------------
(* startPackageImport *)

\* A day-old row of the course is polled first; a course that does not exist is
\* created.
Start(p) ==
  LET old == {n \in Packages : Unbuilt(n) /\ pkg[n].job /\ pkg[n].age >= Stale} IN
  /\ At(p, "idle") /\ course # "deleted"
  /\ IF old # {}
     THEN \E n \in old : PollRow(p, n, "start")
     ELSE /\ Become(p, [Idle EXCEPT !.pc = "start", !.made = (course = "absent")])
          /\ UNCHANGED pkg
  /\ course' = "present"
  /\ UNCHANGED <<cloud, active, live, published, partial, pinned, raced, refused>>

\* Mutant: a start that has not recorded its job yet is overlooked.
InFlightStarted == {n \in InStatus("PROCESSING") : pkg[n].job}

InFlight == InStatus("PROCESSING")

\* A row in flight that can never finish: it has no job, or is past the hard cap.
Dead(n) == PastHardCap(n) \/ (~pkg[n].job /\ Unbuilt(n) /\ IsStale(n))

\* An import that created the course deletes it, with all that hangs on it, when the
\* upload is rejected.
MayTakeBack(p) == worker[p].made /\ worker[p].pc \in {"start", "upload", "reject"} \cup Undoing

\* Under the course's start lock: a row in flight refuses the import, unless it
\* is a dead one, which is failed.  An existing course goes offline.
StartTx(p) ==
  LET busy == InFlight IN
  /\ At(p, "start")
  /\ \/ /\ course = "present" /\ Newest < MaxPackages
        /\ \A n \in busy : Dead(n)
        /\ pkg' = [n \in Packages |->
             IF n = Newest + 1 THEN [NoRow EXCEPT !.status = "PROCESSING"]
             ELSE IF n \in busy THEN [pkg[n] EXCEPT !.status = "FAILED"] ELSE pkg[n]]
        /\ active' = (active /\ worker[p].made)
        /\ Become(p, [worker[p] EXCEPT !.pc = "upload", !.of = Newest + 1])
        /\ raced' = (raced \/ \E q \in Workers \ {p} :
                                worker[q].pc \in Destroying \/ MayTakeBack(q))
     \/ /\ course # "present" \/ Newest = MaxPackages \/ \E n \in busy : ~Dead(n)
        /\ Become(p, Idle)
        /\ UNCHANGED <<pkg, active, raced, refused>>
  /\ UNCHANGED <<cloud, course, live, published, partial, pinned, refused>>

\* Cloud takes the upload, rejects it, or does not answer in time.
Upload(p) ==
  LET n == worker[p].of IN
  /\ At(p, "upload")
  /\ \/ Goto(p, "record") /\ cloud' = [cloud EXCEPT ![n] = "running"]
     \/ Goto(p, "reject") /\ UNCHANGED cloud
     \/ Goto(p, "late") /\ \E c \in {"none", "running"} : cloud' = [cloud EXCEPT ![n] = c]
  /\ UNCHANGED <<pkg, courseVars, raced, refused>>

\* The job is recorded, whatever became of the row; if that fails the row is
\* failed, if that can be written.
Record(p) ==
  LET n == worker[p].of IN
  /\ At(p, "record")
  /\ \/ Exists(n) /\ pkg' = [pkg EXCEPT ![n].job = TRUE]
     \/ MarkIf(pkg[n].status = "PROCESSING", n, "FAILED")
     \/ UNCHANGED pkg
  /\ Become(p, Idle)
  /\ UNCHANGED <<cloud, courseVars, raced, refused>>

\* A rejected upload fails the row, whatever became of it.
Reject(p) ==
  LET n == worker[p].of IN
  /\ At(p, "reject")
  /\ MarkIf(Exists(n), n, "FAILED")
  /\ IF Exists(n) /\ worker[p].made THEN Goto(p, "undo") ELSE Become(p, Idle)
  /\ UNCHANGED <<cloud, courseVars, raced, refused>>

\* Mutant: a time-out is a rejection.
AfterLateUndo(p) == IF worker[p].made THEN "undo" ELSE "cleanup"

\* A time-out is not a rejection: the row stays, to name the Cloud course.
AfterLate(p) == "cleanup"

Late(p) ==
  LET n == worker[p].of IN
  /\ At(p, "late")
  /\ MarkIf(Exists(n), n, "FAILED")
  /\ IF Exists(n) THEN Goto(p, AfterLate(p)) ELSE Become(p, Idle)
  /\ UNCHANGED <<cloud, courseVars, raced, refused>>

\* The Cloud course is deleted, if that succeeds.
Cleanup(p) ==
  /\ At(p, "cleanup")
  /\ \/ cloud[worker[p].of] \in OnCloud /\ cloud' = [cloud EXCEPT ![worker[p].of] = "gone"]
     \/ UNCHANGED cloud
  /\ Become(p, Idle)
  /\ UNCHANGED <<pkg, courseVars, raced, refused>>

\* A rejected import takes the course back that was created for it: the row,
\* then the course, as far as that succeeds.
UndoPackage(p) ==
  LET n == worker[p].of IN
  /\ At(p, "undo")
  /\ \/ Exists(n) /\ pkg' = [pkg EXCEPT ![n] = NoRow] /\ Goto(p, "undoCourse")
     \/ UNCHANGED pkg /\ Become(p, Idle)
  /\ UNCHANGED <<cloud, courseVars, raced, refused>>

\* Deleting a course deletes what hangs on it.
DeleteCourse ==
  /\ course' = "deleted"
  /\ pkg' = [n \in Packages |-> NoRow]
  /\ active' = FALSE /\ live' = 0 /\ published' = 0 /\ pinned' = 0

UndoCourse(p) ==
  /\ At(p, "undoCourse")
  /\ \/ course = "present" /\ live = 0 /\ DeleteCourse
     \/ UNCHANGED <<pkg, course, active, live, published, pinned>>
  /\ Become(p, Idle)
  /\ UNCHANGED <<cloud, partial, raced, refused>>

-----------------------------------------------------------------------------
(* setCourseActive and its gate *)

\* assertScormCoursePublishable: the live sections are those of the newest READY
\* package, and no destruction was left unfinished since it was imported.
Publishable ==
  \E n \in InStatus("READY") :
    /\ \A m \in InStatus("READY") : m <= n
    /\ live = n /\ partial < n

CheckActivation(p) ==
  /\ At(p, "idle") /\ course = "present" /\ ~active /\ Publishable
  /\ Become(p, [Idle EXCEPT !.pc = "activate"])
  /\ UNCHANGED <<pkg, cloud, courseVars, raced, refused>>

Activate(p) ==
  /\ At(p, "activate")
  /\ active' = (course = "present")
  /\ Become(p, Idle)
  /\ UNCHANGED <<pkg, cloud, course, live, published, partial, pinned, raced, refused>>

Deactivate(p) ==
  /\ At(p, "idle") /\ active
  /\ active' = FALSE
  /\ UNCHANGED <<pkg, cloud, course, live, published, partial, pinned, worker, raced, refused>>

-----------------------------------------------------------------------------
(* Enrolments and pruneSupersededPackagesCron *)

\* An enrolment is pinned to the latest version, or gives its pin up.
Pin ==
  /\ pinned' \in {published, 0} \ {pinned}
  /\ UNCHANGED <<pkg, cloud, course, active, live, published, partial, worker, raced, refused>>

\* canPruneSupersededPackage: nobody is pinned to it or in the middle of it.
CheckPrune(p) ==
  /\ At(p, "idle")
  /\ \E n \in InStatus("SUPERSEDED") \ {pinned} :
       Become(p, [Idle EXCEPT !.pc = "prune", !.of = n])
  /\ UNCHANGED <<pkg, cloud, courseVars, raced, refused>>

\* A course that is gone already counts as a failure.
PruneCloud(p) ==
  LET n == worker[p].of IN
  /\ At(p, "prune")
  /\ \/ cloud[n] \in OnCloud /\ cloud' = [cloud EXCEPT ![n] = "gone"] /\ Goto(p, "pruned")
     \/ Become(p, Idle) /\ UNCHANGED cloud
  /\ UNCHANGED <<pkg, courseVars, raced, refused>>

PruneMark(p) ==
  /\ At(p, "pruned")
  /\ MarkIf(Exists(worker[p].of), worker[p].of, "PRUNED")
  /\ Become(p, Idle)
  /\ UNCHANGED <<cloud, courseVars, raced, refused>>

-----------------------------------------------------------------------------
(* destroyImportedScormCourse *)

\* The packages are listed first.
Gather(p) ==
  /\ MayDestroy /\ At(p, "idle") /\ course = "present"
  /\ Become(p, [Idle EXCEPT !.pc = "close",
                            !.todo = {n \in Packages : pkg[n].status \notin {"none", "PRUNED"}}])
  /\ raced' = (raced \/ \E q \in Workers : worker[q].pc \in Starting \ {"start"})
  /\ UNCHANGED <<pkg, cloud, courseVars, refused>>

\* The course goes offline before anything of it is deleted.
Close(p) ==
  /\ At(p, "close")
  /\ active' = FALSE
  /\ Goto(p, "purge")
  /\ UNCHANGED <<pkg, cloud, course, live, published, partial, pinned, raced, refused>>

\* The Cloud courses one after another, as far as the time allows.  One that Cloud
\* refuses to delete for good is passed over.
PurgeCloud(p) ==
  /\ At(p, "purge")
  /\ \/ \E n \in worker[p].todo :
          /\ \A m \in worker[p].todo : n <= m
          /\ \/ /\ cloud' = [cloud EXCEPT ![n] = IF @ \in OnCloud THEN "gone" ELSE @]
                /\ Become(p, [worker[p] EXCEPT !.todo = @ \ {n}, !.done = @ \cup {n}])
                /\ refused' = refused \ {n}
             \/ /\ cloud[n] \in OnCloud /\ UNCHANGED cloud
                /\ Become(p, [worker[p] EXCEPT !.todo = @ \ {n}])
                /\ refused' = refused \cup {n}
     \/ Goto(p, "settle") /\ UNCHANGED <<cloud, refused>>
  /\ UNCHANGED <<pkg, courseVars, raced>>

\* What was purged is marked, if that succeeds; a destruction that is not
\* finished is recorded and can be repeated.  A course that was passed over does not
\* count as unfinished.
Settle(p) ==
  LET done == worker[p].done IN
  /\ At(p, "settle")
  /\ \/ pkg' = [n \in Packages |-> IF n \in done /\ Exists(n)
                                   THEN [pkg[n] EXCEPT !.status = "PRUNED"] ELSE pkg[n]]
     \/ UNCHANGED pkg
  /\ IF worker[p].todo = {} THEN Goto(p, "teardown") /\ UNCHANGED partial
                  ELSE Become(p, Idle) /\ partial' = Newest
  /\ UNCHANGED <<cloud, course, active, live, published, pinned, raced, refused>>

Teardown(p) ==
  /\ At(p, "teardown")
  /\ \/ course = "present" /\ DeleteCourse /\ UNCHANGED partial
     \/ /\ partial' = Newest
        /\ UNCHANGED <<pkg, course, active, live, published, pinned>>
  /\ Become(p, Idle)
  /\ UNCHANGED <<cloud, raced, refused>>

-----------------------------------------------------------------------------
Continue(p) ==
  \/ AskCloud(p) \/ Prepare(p) \/ Build(p) \/ Finish(p) \/ Publish(p) \/ MarkReady(p)
  \/ StartTx(p) \/ Upload(p) \/ Record(p) \/ Reject(p) \/ Late(p) \/ Cleanup(p)
  \/ UndoPackage(p) \/ UndoCourse(p) \/ Activate(p)
  \/ PruneCloud(p) \/ PruneMark(p)
  \/ Close(p) \/ PurgeCloud(p) \/ Settle(p) \/ Teardown(p)

Next ==
  \/ \E n \in Packages : Age(n) \/ CloudWork(n)
  \/ \E p \in Workers : Continue(p) \/ Poll(p) \/ Crash(p)
  \/ \E p \in Admins : Start(p) \/ CheckActivation(p) \/ Deactivate(p) \/ Gather(p)
  \/ CheckPrune(Cron)
  \/ Pin

Spec == Init /\ [][Next]_vars

\* A step that was begun goes on unless it is cut off, time passes, and the cron
\* polls again and again.
FairSpec ==
  /\ Spec
  /\ WF_vars(\E n \in Packages : Age(n))
  /\ WF_vars(Continue(Cron))
  /\ SF_vars(Poll(Cron))

-----------------------------------------------------------------------------
(* Properties *)

\* Every variable has its type.
TypeOK ==
  /\ pkg \in [Packages -> Row]
  /\ cloud \in [Packages -> Clouds]
  /\ course \in {"absent", "present", "deleted"}
  /\ active \in BOOLEAN
  /\ {live, published, partial, pinned} \subseteq Packages \cup {0}
  /\ worker \in [Workers -> Worker]
  /\ raced \in BOOLEAN /\ refused \subseteq Packages

\* One import of a course at a time: a second one would archive the sections of
\* the first under its polls (the in-flight check of startPackageImport).
OneInFlight ==
  \A m, n \in InStatus("PROCESSING") : m = n

\* A READY package is what learners get: its sections are the live ones and the
\* latest version is made of them, so there is never a second one
\* (buildOrReplaceTree, finishPublishAndReady).
ReadyIsLive ==
  \A n \in InStatus("READY") : pkg[n].tree /\ live = n /\ published = n

\* A package whose tree went live is given up only after 72 hours: failing it
\* earlier would strand live sections under a FAILED row (failIfStale,
\* failIfUnbuilt, failIfPastHardCap).
BuiltIsKept ==
  \A n \in InStatus("FAILED") : pkg[n].tree => pkg[n].age = HardCap

\* Every course on SCORM Cloud, which counts against the account, has a row that
\* names it and that a destruction of the course will act on, as long as no
\* import runs into a destruction or starts on a course that another import has
\* created and may still take back.  A destruction that goes on past a refused
\* deletion takes the name of that course away, and of no other.
CloudIsNamed ==
  ~raced => \A n \in Packages \ refused :
    cloud[n] \in OnCloud => pkg[n].status \notin {"none", "PRUNED"}

\* The course never stays busy with an import, refusing every other, however often
\* Cloud or the publish fails (STALE_PROCESSING_HARD_MS).
Decided == []<>(InStatus("PROCESSING") = {})

\* prepareExistingCourse: an imported course may not be active until it has a READY
\* package and its live sections.  It may: the gate does not ask whether an import
\* is in flight, so a course that a re-import took offline can be shown again, and
\* then loses its READY package.
ActiveHasPackage ==
  active => \E n \in InStatus("READY") : live = n

\* canPruneSupersededPackage: a package that a learner is pinned to is not deleted.
\* It is, when the learner is pinned between the check and the deletion: until the
\* new package is published, the superseded one is still the latest version.
PinnedIsKept ==
  \A p \in Workers : At(p, "pruned") => worker[p].of # pinned
=============================================================================
