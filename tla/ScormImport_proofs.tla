-------------------------- MODULE ScormImport_proofs --------------------------
(***************************************************************************)
(* Proofs about ScormImport, for any number of administrators and of imports, *)
(* whether or not requests are cut off and the course is destroyed.         *)
(***************************************************************************)
EXTENDS ScormImport, WellFoundedInduction, TLAPS

\* A request that has a package of its own to bring to SCORM Cloud, and one that
\* works on a package that was brought there.
Owning   == {"upload", "record", "reject", "late", "undo"}
Handling == Polling \cup {"prune", "pruned"}

\* A row that is gone leaves nothing; a tree belongs to a job that Cloud completed.
Rows ==
  /\ course # "present" => \A n \in Packages : ~Exists(n)
  /\ \A n \in Packages :
       /\ ~Exists(n) => pkg[n] = NoRow
       /\ pkg[n].status \in {"READY", "SUPERSEDED"} => pkg[n].tree
       /\ pkg[n].tree => pkg[n].job /\ cloud[n] \in {"complete", "gone"}

\* Nothing has happened to a course that does not exist yet.
Fresh ==
  course = "absent" =>
    (\A n \in Packages : cloud[n] = "none") /\ (\A p \in Workers : At(p, "idle"))

\* An import works on a row of its own, which has no job until it is recorded.
Owned ==
  \A p \in Workers :
    worker[p].pc \in Owning \cup {"cleanup"} =>
      /\ worker[p].of \in Packages
      /\ course # "deleted" => Exists(worker[p].of)
      /\ \A q \in Workers \ {p} :
           worker[q].pc \in Owning \cup {"cleanup"} => worker[q].of # worker[p].of
NoJobYet == \A p \in Workers : worker[p].pc \in Owning => ~pkg[worker[p].of].job

\* A poll or the sweep works on a package with a job, whose upload is over.
Handled ==
  \A p \in Workers :
    worker[p].pc \in Handling =>
      /\ worker[p].of \in Packages
      /\ course # "deleted" => pkg[worker[p].of].job
      /\ \A q \in Workers : At(q, "upload") => worker[q].of # worker[p].of
      /\ worker[p].pc \in {"prepare", "build"} => cloud[worker[p].of] \in {"complete", "gone"}
      /\ At(p, "pruned") => cloud[worker[p].of] = "gone"

\* What is about to be published has its tree, and the tree in flight is live.
Built ==
  \A p \in Workers :
    worker[p].pc \in {"finish", "publish", "ready"} /\ course # "deleted"
      => pkg[worker[p].of].tree
BuiltIsLive == \A n \in InStatus("PROCESSING") : pkg[n].tree => live = n

\* One request publishes at a time, and publishes the tree of its own package; nobody
\* publishes an older one behind a package that is, or is about to be, READY.
OnePublisher == \A p, q \in Workers : At(p, "publish") /\ At(q, "publish") => p = q
PublishesOwn == \A p \in Workers : At(p, "publish") => worker[p].tree = worker[p].of
NoneBehind ==
  /\ \A p, q \in Workers :
       At(p, "ready") /\ At(q, "publish") /\ worker[p].of # worker[q].of
         => pkg[worker[p].of].status # "PROCESSING"
  /\ \A n \in InStatus("READY"), q \in Workers : At(q, "publish") => worker[q].of = n
  /\ \A p \in Workers :
       At(p, "ready") /\ pkg[worker[p].of].status = "PROCESSING"
         => published = worker[p].of

\* Only an import that created the course takes it back.
Backed == \A p \in Workers : worker[p].pc \in Undoing => worker[p].made

\* Imports keep apart from destructions and from imports that may take the course
\* back, which know of every Cloud course.
Apart ==
  ~raced =>
    \A p \in Workers :
      /\ worker[p].pc \in Destroying =>
           /\ \A q \in Workers : worker[q].pc \notin Starting \ {"start"}
           /\ \A n \in Packages \ refused : cloud[n] \in OnCloud => n \in worker[p].todo
           /\ \A n \in worker[p].done : cloud[n] \notin OnCloud
           /\ At(p, "teardown") => worker[p].todo = {}
      /\ MayTakeBack(p) =>
           /\ \A n \in Packages : cloud[n] \notin OnCloud
           /\ \A q \in Workers \ {p} : ~At(q, "upload")
      /\ At(p, "upload") => pkg[worker[p].of].status \notin {"none", "PRUNED"}

\* The inductive invariant.
IInv ==
  /\ TypeOK /\ Rows /\ Fresh /\ Owned /\ NoJobYet /\ Handled /\ Built
  /\ OneInFlight /\ BuiltIsKept
  /\ BuiltIsLive /\ OnePublisher /\ PublishesOwn /\ NoneBehind /\ ReadyIsLive
  /\ Backed /\ Apart /\ CloudIsNamed

-----------------------------------------------------------------------------
(* What a step does to the workers. *)

Keeps(p) == \A q \in Workers \ {p} : worker'[q] = worker[q]

\* p has nothing to go on with but a start on a course that is not its own, or an
\* activation.
Rested(p) ==
  /\ Keeps(p)
  /\ worker'[p].pc \in {"idle", "start", "activate"} /\ worker'[p].made = FALSE

\* p goes on with what it has.
Turned(p, step) ==
  /\ Keeps(p)
  /\ worker'[p].pc = step
  /\ worker'[p].of = worker[p].of /\ worker'[p].made = worker[p].made
  /\ worker'[p].todo = worker[p].todo /\ worker'[p].done = worker[p].done

\* p has looked at a row in flight and goes on with it.
Polled(p) ==
  /\ Keeps(p) /\ pkg' = pkg
  /\ worker'[p].made = FALSE
  /\ \E n \in Packages :
       /\ pkg[n].status = "PROCESSING" /\ worker'[p].of = n
       /\ \/ worker'[p].pc = "ask" /\ pkg[n].job
          \/ worker'[p].pc = "finish" /\ pkg[n].tree

\* A row in flight, without a tree or too old, is failed.
GaveUp ==
  \E n \in Packages :
    /\ pkg[n].status = "PROCESSING" /\ (~pkg[n].tree \/ pkg[n].age = HardCap)
    /\ pkg' = [pkg EXCEPT ![n].status = "FAILED"]

\* What a step does to the row of a package.
Stays(n)  == pkg'[n] = pkg[n]
Ages(n)   == /\ pkg[n].status = "PROCESSING" /\ pkg[n].age < HardCap
             /\ pkg'[n] = [pkg[n] EXCEPT !.age = @ + 1]
Fails(n)  == /\ Exists(n) /\ (~pkg[n].tree \/ pkg[n].age = HardCap)
             /\ pkg'[n] = [pkg[n] EXCEPT !.status = "FAILED"]
GetsJob(n) == /\ Exists(n) /\ pkg'[n] = [pkg[n] EXCEPT !.job = TRUE]
              /\ \E p \in Workers : At(p, "record") /\ worker[p].of = n /\ Rested(p)
GetsTree(n) == /\ pkg[n].status = "PROCESSING" /\ ~pkg[n].tree /\ pkg[n].job
               /\ cloud[n] \in {"complete", "gone"}
               /\ pkg'[n] = [pkg[n] EXCEPT !.tree = TRUE] /\ live' = n
GivesWay(n) == /\ pkg[n].status = "READY"
               /\ pkg'[n] = [pkg[n] EXCEPT !.status = "SUPERSEDED"]
Succeeds(n) == /\ pkg[n].status = "PROCESSING" /\ pkg[n].tree /\ published = n
               /\ \A q \in Workers : At(q, "publish") => worker[q].of = n
               /\ pkg'[n] = [pkg[n] EXCEPT !.status = "READY"]
               /\ UNCHANGED <<live, published>>
IsPruned(n) == /\ Exists(n) /\ pkg'[n] = [pkg[n] EXCEPT !.status = "PRUNED"]
               /\ \E p \in Workers :
                    \/ At(p, "pruned") /\ worker[p].of = n
                    \/ At(p, "settle") /\ n \in worker[p].done
Goes(n)     == /\ pkg'[n] = NoRow
               /\ \/ /\ course' = "deleted" /\ \A m \in Packages : pkg'[m] = NoRow
                     /\ \E p \in Workers : At(p, "undoCourse") \/ At(p, "teardown")
                  \/ \E p \in Workers :
                       At(p, "undo") /\ worker[p].of = n /\ Turned(p, "undoCourse")
Comes(n)    == /\ ~Exists(n) /\ course = "present" /\ course' = "present"
               /\ pkg'[n] = [NoRow EXCEPT !.status = "PROCESSING"]
               /\ \A m \in Packages \ {n} : pkg'[m].status # "PROCESSING"
               /\ \E p \in Workers : Keeps(p) /\ worker'[p].pc = "upload" /\ worker'[p].of = n

Moves(n) == \/ Stays(n) \/ Ages(n) \/ Fails(n) \/ GetsJob(n) \/ GetsTree(n) \/ GivesWay(n)
            \/ Succeeds(n) \/ IsPruned(n) \/ Goes(n) \/ Comes(n)

\* What a step does to the course of a package on SCORM Cloud.
CloudMoves(n) ==
  \/ cloud'[n] = cloud[n]
  \/ cloud[n] = "running" /\ cloud'[n] \in {"complete", "error"}
  \/ cloud[n] \in OnCloud /\ cloud'[n] = "gone"
  \/ /\ \E p \in Workers : At(p, "upload") /\ worker[p].of = n /\ ~(worker'[p].pc = "upload")
     /\ cloud'[n] \in {"none", "running"}

\* What a step does to the course, and to its live tree and latest version.
Wiped == \A n \in Packages : pkg'[n] = NoRow
CourseMoves ==
  \/ course' = course
  \/ course = "absent" /\ course' = "present"
  \/ course = "present" /\ course' = "deleted" /\ Wiped
LiveMoves ==
  \/ live' = live
  \/ \E n \in Packages : GetsTree(n) /\ pkg' = WithTree(n) /\ live' = n
  \/ Wiped
PublishedMoves ==
  \/ published' = published
  \/ \E p \in Workers : At(p, "publish") /\ published' = worker[p].tree /\ pkg' = pkg
  \/ Wiped

\* How a worker goes on: it rests, or begins an import; it takes a package up; it
\* enters its import; it lists or purges what a destruction deletes; or it does
\* its next step.
Rests(p)   == /\ worker'[p].pc \in {"idle", "start", "activate"}
              /\ worker'[p].made => course = "absent"
TakesUp(p) == /\ worker'[p].made = FALSE
              /\ \E n \in Packages :
                   /\ worker'[p].of = n /\ pkg[n].job
                   /\ \/ worker'[p].pc \in {"ask", "prune"}
                      \/ worker'[p].pc = "finish" /\ pkg[n].tree
Imports(p) == /\ At(p, "start") /\ worker'[p].pc = "upload"
              /\ worker'[p].made = worker[p].made
              /\ \E n \in Packages :
                   /\ worker'[p].of = n /\ ~Exists(n)
                   /\ pkg'[n] = [NoRow EXCEPT !.status = "PROCESSING"]
              /\ course = "present" /\ course' = course /\ cloud' = cloud
              /\ ~raced' => \A q \in Workers \ {p} :
                              worker[q].pc \notin Destroying /\ ~MayTakeBack(q)
Gathers(p) == /\ worker'[p].pc = "close" /\ worker'[p].made = FALSE
              /\ worker'[p].todo = {n \in Packages : pkg[n].status \notin {"none", "PRUNED"}}
              /\ worker'[p].done = {} /\ cloud' = cloud
              /\ ~raced' => \A q \in Workers : worker[q].pc \notin Starting \ {"start"}
Purges(p)  == /\ At(p, "purge") /\ worker'[p].pc = "purge"
              /\ worker'[p].made = worker[p].made
              /\ \E n \in worker[p].todo :
                   /\ worker'[p].todo = worker[p].todo \ {n}
                   /\ \/ /\ cloud'[n] \notin OnCloud
                         /\ worker'[p].done = worker[p].done \cup {n}
                      \/ n \in refused' /\ worker'[p].done = worker[p].done
PackageStep(p) ==
  \/ Turned(p, "prepare") /\ At(p, "ask") /\ cloud[worker[p].of] = "complete"
  \/ Turned(p, "build") /\ At(p, "prepare")
  \/ Turned(p, "finish") /\ At(p, "build") /\ pkg'[worker[p].of].tree
  \/ /\ Turned(p, "publish") /\ At(p, "finish") /\ worker'[p].tree = live
     /\ pkg[worker[p].of].status = "PROCESSING" /\ pkg' = pkg
     /\ \A q \in Workers : ~At(q, "publish")
  \/ Turned(p, "ready") /\ At(p, "publish") /\ published' = worker[p].tree
  \/ Turned(p, "pruned") /\ At(p, "prune") /\ cloud'[worker[p].of] = "gone"
ImportStep(p) ==
  \/ Turned(p, "record") /\ At(p, "upload")
  \/ Turned(p, "late") /\ At(p, "upload")
  \/ Turned(p, "reject") /\ At(p, "upload") /\ cloud' = cloud
  \/ Turned(p, "undo") /\ At(p, "reject") /\ worker[p].made
  \/ Turned(p, "cleanup") /\ At(p, "late")
  \/ Turned(p, "undoCourse") /\ At(p, "undo")
DestroyStep(p) ==
  \/ Turned(p, "purge") /\ At(p, "close")
  \/ Turned(p, "settle") /\ At(p, "purge")
  \/ Turned(p, "teardown") /\ At(p, "settle") /\ worker[p].todo = {}
WorkMoves(p) == /\ Keeps(p)
                /\ \/ Rests(p) \/ TakesUp(p) \/ Imports(p) \/ Gathers(p) \/ Purges(p)
                   \/ PackageStep(p) \/ ImportStep(p) \/ DestroyStep(p)

USE DEF Exists, InStatus

\* Facts about the constants.
LEMMA Constants ==
  /\ MaxPackages \in Nat /\ Packages \subseteq Nat /\ 0 \notin Packages
  /\ Cron \in Workers /\ Admins \subseteq Workers
  /\ \A n \in Nat : n + 1 \in Packages <=> n < MaxPackages
  BY ImportAssumption DEF Packages, Workers

LEMMA IdleWorker == Idle \in Worker
  BY Constants DEF Idle, Worker, Steps

\* Becoming is becoming a worker, of the one that becomes.
LEMMA BecomeAt ==
  ASSUME TypeOK, NEW p \in Workers, NEW w, Become(p, w)
  PROVE  worker'[p] = w /\ Keeps(p)
  BY DEF TypeOK, Become, Keeps

LEMMA GotoTurns ==
  ASSUME TypeOK, NEW p \in Workers, NEW step \in Steps, Goto(p, step)
  PROVE  Turned(p, step) /\ worker'[p] \in Worker
<1>1. worker[p] \in Worker
  BY DEF TypeOK
<1> DEFINE w == [worker[p] EXCEPT !.pc = step]
<1>2. /\ w.pc = step /\ w.of = worker[p].of /\ w.made = worker[p].made
      /\ w.todo = worker[p].todo /\ w.done = worker[p].done /\ w \in Worker
  BY <1>1 DEF Worker
<1>3. Become(p, w)
  BY DEF Goto
<1> HIDE DEF w
<1>4. worker'[p] = w /\ Keeps(p)
  BY <1>3, BecomeAt
<1> QED BY <1>2, <1>4 DEF Turned

LEMMA IdleRests ==
  ASSUME TypeOK, NEW p \in Workers, Become(p, Idle)
  PROVE  Rested(p) /\ worker'[p] \in Worker
  BY BecomeAt, IdleWorker DEF Rested, Idle

LEMMA AnswerRests ==
  ASSUME TypeOK, NEW p \in Workers, Answer(p)
  PROVE  Rested(p) /\ worker'[p] \in Worker
<1>1. worker[p].then \in {"idle", "start"}
  BY DEF TypeOK, Worker
<1> DEFINE w == [Idle EXCEPT !.pc = worker[p].then]
<1>2. w.pc \in {"idle", "start", "activate"} /\ w.made = FALSE /\ w \in Worker
  BY <1>1, IdleWorker DEF Idle, Worker, Steps, Starting
<1>3. Become(p, w)
  BY DEF Answer
<1> HIDE DEF w
<1> QED BY <1>2, <1>3, BecomeAt DEF Rested

\* A row that a poll looks at is failed, or goes on.
LEMMA PollShape ==
  ASSUME TypeOK, NEW p \in Workers, NEW n \in InStatus("PROCESSING"),
         NEW then \in {"idle", "start"}, PollRow(p, n, then)
  PROVE  /\ worker'[p] \in Worker
         /\ (Rested(p) /\ (GaveUp \/ pkg' = pkg)) \/ Polled(p)
<1> DEFINE poll == [Idle EXCEPT !.of = n, !.then = then]
           at(step) == [poll EXCEPT !.pc = step]
           stop == [Idle EXCEPT !.pc = then]
<1>0. n \in Packages /\ pkg[n].status = "PROCESSING"
  OBVIOUS
<1>1. stop \in Worker /\ stop.pc \in {"idle", "start"} /\ stop.made = FALSE
  BY IdleWorker DEF Idle, Worker, Steps, Starting
<1>2. ASSUME NEW step \in {"ask", "finish"}
      PROVE  /\ at(step) \in Worker /\ at(step).pc = step /\ at(step).of = n
             /\ at(step).made = FALSE
  BY <1>0, IdleWorker DEF Idle, Worker, Steps, Polling
<1>3. CASE Become(p, stop)
  <2>1. \/ pkg' = pkg
        \/ /\ pkg' = [pkg EXCEPT ![n].status = "FAILED"]
           /\ PastHardCap(n) \/ Unbuilt(n)
    BY <1>0, <1>3 DEF PollRow, MarkIf, Mark, Become, PastHardCap
  <2>2. GaveUp \/ pkg' = pkg
    BY <1>0, <2>1 DEF GaveUp, PastHardCap, Unbuilt
  <2>3. worker'[p] = stop /\ Keeps(p)
    <3> HIDE DEF stop
    <3> QED BY <1>3, BecomeAt
  <2> QED BY <1>1, <2>2, <2>3 DEF Rested
<1>4. ASSUME NEW step \in {"ask", "finish"}, Become(p, at(step)), pkg' = pkg,
             step = "ask" => pkg[n].job, step = "finish" => pkg[n].tree
      PROVE  Polled(p) /\ worker'[p] \in Worker
  <2>1. worker'[p] = at(step) /\ Keeps(p)
    <3> HIDE DEF at
    <3> QED BY <1>4, BecomeAt
  <2> QED BY <1>0, <1>2, <1>4, <2>1 DEF Polled
<1>5. \/ Become(p, stop)
      \/ Become(p, at("finish")) /\ pkg' = pkg /\ pkg[n].tree
      \/ Become(p, at("ask")) /\ pkg' = pkg /\ pkg[n].job
  BY DEF PollRow
<1> QED BY <1>3, <1>4, <1>5

\* The numbers of the packages have a last.
LEMMA NewestIs ==
  ASSUME TypeOK
  PROVE  /\ Newest \in Packages \cup {0}
         /\ Newest # 0 => Exists(Newest)
         /\ \A m \in Packages : Exists(m) => m <= Newest
<1> DEFINE T == {k \in Nat : \A m \in Packages : Exists(m) => m <= k}
           IsNewest(n) == /\ n # 0 => Exists(n)
                          /\ \A m \in Packages : Exists(m) => m <= n
<1>1. MaxPackages \in T
  BY Constants DEF Packages
<1>2. IsWellFoundedOn(OpToRel(<, Nat), Nat)
  BY NatLessThanWellFounded
<1>3. PICK k \in T : \A j \in T : ~(<<j, k>> \in OpToRel(<, Nat))
  <2> HIDE DEF T
  <2>1. T \subseteq Nat /\ T # {}
    BY <1>1 DEF T
  <2> QED BY <1>2, <2>1, WFMin
<1>4. \A j \in T : ~(j < k)
  BY <1>3 DEF OpToRel
<1>5. k \in Nat /\ \A m \in Packages : Exists(m) => m <= k
  OBVIOUS
<1>6. k \in Packages \cup {0} /\ (k # 0 => Exists(k))
  <2> SUFFICES ASSUME k # 0 PROVE k \in Packages /\ Exists(k)
    OBVIOUS
  <2>1. k <= MaxPackages
    BY <1>1, <1>4, <1>5, Constants
  <2>2. k \in Packages
    BY <1>5, <2>1, Constants DEF Packages
  <2>3. k - 1 \in Nat /\ k - 1 < k
    BY <1>5
  <2>4. ~(k - 1 \in T)
    BY <1>4, <2>3
  <2>5. PICK m \in Packages : Exists(m) /\ ~(m <= k - 1)
    BY <2>3, <2>4
  <2>6. m = k
    BY <1>5, <2>5, Constants
  <2> QED BY <2>2, <2>5, <2>6
<1>7. \E n \in Packages \cup {0} : IsNewest(n)
  BY <1>5, <1>6
<1> QED BY <1>7 DEF Newest

-----------------------------------------------------------------------------
(* Each action of a worker, as far as the worker goes. *)

\* A poll goes through its steps, or rests.
LEMMA PollingShape ==
  ASSUME TypeOK, NEW p \in Workers
  PROVE  /\ AskCloud(p) => \/ Rested(p)
                           \/ Turned(p, "prepare") /\ cloud[worker[p].of] = "complete" /\ pkg' = pkg
         /\ Prepare(p) => Rested(p) \/ (Turned(p, "build") /\ pkg' = pkg)
         /\ Build(p) => \/ Rested(p) /\ live' = live
                        \/ /\ Turned(p, "finish")
                           /\ Unbuilt(worker[p].of) /\ pkg' = WithTree(worker[p].of)
                           /\ live' = worker[p].of
         /\ Publish(p) => \/ Rested(p) /\ published' = published
                          \/ /\ Turned(p, "ready")
                             /\ course = "present" /\ published' = worker[p].tree
         /\ MarkReady(p) => Rested(p)
         /\ AskCloud(p) \/ Prepare(p) \/ Build(p) \/ Publish(p) \/ MarkReady(p)
              => worker'[p] \in Worker /\ Keeps(p)
<1> USE DEF Steps, Polling
<1>1. ASSUME AskCloud(p)
      PROVE  /\ \/ Rested(p)
                \/ Turned(p, "prepare") /\ cloud[worker[p].of] = "complete" /\ pkg' = pkg
             /\ worker'[p] \in Worker
  BY <1>1, AnswerRests, GotoTurns DEF AskCloud
<1>2. ASSUME Prepare(p)
      PROVE  (Rested(p) \/ (Turned(p, "build") /\ pkg' = pkg)) /\ worker'[p] \in Worker
  BY <1>2, AnswerRests, GotoTurns DEF Prepare
<1>3. ASSUME Build(p)
      PROVE  /\ \/ Rested(p) /\ live' = live
                \/ /\ Turned(p, "finish")
                   /\ Unbuilt(worker[p].of) /\ pkg' = WithTree(worker[p].of)
                   /\ live' = worker[p].of
             /\ worker'[p] \in Worker
  BY <1>3, AnswerRests, GotoTurns DEF Build, StillUnbuilt
<1>4. ASSUME Publish(p)
      PROVE  /\ \/ Rested(p) /\ published' = published
                \/ /\ Turned(p, "ready")
                   /\ course = "present" /\ published' = worker[p].tree
             /\ worker'[p] \in Worker
  <2> DEFINE w == [worker[p] EXCEPT !.pc = "ready", !.tree = 0]
  <2>1. worker[p] \in Worker
    BY DEF TypeOK
  <2>2. /\ w \in Worker /\ w.pc = "ready" /\ w.of = worker[p].of /\ w.made = worker[p].made
        /\ w.todo = worker[p].todo /\ w.done = worker[p].done
    BY <2>1 DEF Worker
  <2>3. \/ Answer(p) /\ published' = published
        \/ course = "present" /\ published' = worker[p].tree /\ Become(p, w)
    BY <1>4 DEF Publish
  <2> HIDE DEF w
  <2>4. Become(p, w) => Turned(p, "ready") /\ worker'[p] \in Worker
    BY <2>2, BecomeAt DEF Turned
  <2> QED BY <2>3, <2>4, AnswerRests
<1>5. ASSUME MarkReady(p) PROVE Rested(p) /\ worker'[p] \in Worker
  BY <1>5, AnswerRests DEF MarkReady
<1>6. (\E s : Turned(p, s)) \/ Rested(p) => Keeps(p)
  BY DEF Turned, Rested
<1> QED BY <1>1, <1>2, <1>3, <1>4, <1>5, <1>6

\* A publish begins with the live tree, when nobody else is publishing.
LEMMA FinishShape ==
  ASSUME TypeOK, NEW p \in Workers, Finish(p)
  PROVE  /\ \/ Rested(p)
            \/ /\ Turned(p, "publish") /\ worker'[p].tree = live
               /\ pkg[worker[p].of].status = "PROCESSING"
               /\ \A q \in Workers : ~At(q, "publish")
         /\ worker'[p] \in Worker
<1> DEFINE w == [worker[p] EXCEPT !.pc = "publish", !.tree = live]
<1>1. worker[p] \in Worker /\ live \in Packages \cup {0}
  BY DEF TypeOK
<1>2. /\ w \in Worker /\ w.pc = "publish" /\ w.of = worker[p].of /\ w.made = worker[p].made
      /\ w.todo = worker[p].todo /\ w.done = worker[p].done /\ w.tree = live
  BY <1>1 DEF Worker, Steps, Polling
<1>3. \/ Answer(p)
      \/ /\ pkg[worker[p].of].status = "PROCESSING"
         /\ \A q \in Workers : ~At(q, "publish")
         /\ Become(p, w)
  BY DEF Finish
<1> HIDE DEF w
<1>4. Become(p, w) => Turned(p, "publish") /\ worker'[p] \in Worker /\ worker'[p].tree = live
  BY <1>2, BecomeAt DEF Turned
<1> QED BY <1>3, <1>4, AnswerRests

\* An import goes through its steps, or rests.
LEMMA ImportShape ==
  ASSUME TypeOK, NEW p \in Workers
  PROVE  /\ Upload(p) =>
              \/ Turned(p, "record") /\ cloud' = [cloud EXCEPT ![worker[p].of] = "running"]
              \/ Turned(p, "reject") /\ cloud' = cloud
              \/ /\ Turned(p, "late")
                 /\ \E c \in {"none", "running"} : cloud' = [cloud EXCEPT ![worker[p].of] = c]
         /\ Reject(p) => Rested(p) \/ (Turned(p, "undo") /\ worker[p].made)
         /\ Late(p) => Rested(p) \/ Turned(p, "cleanup")
         /\ UndoPackage(p) =>
              \/ Rested(p) /\ pkg' = pkg
              \/ Turned(p, "undoCourse") /\ pkg' = [pkg EXCEPT ![worker[p].of] = NoRow]
         /\ Record(p) \/ Cleanup(p) \/ UndoCourse(p) => Rested(p)
         /\ (\/ Upload(p) \/ Reject(p) \/ Late(p) \/ UndoPackage(p)
             \/ Record(p) \/ Cleanup(p) \/ UndoCourse(p))
              => worker'[p] \in Worker /\ Keeps(p)
<1> USE DEF Steps, Starting, Undoing
<1>1. ASSUME Upload(p)
      PROVE  /\ \/ Turned(p, "record") /\ cloud' = [cloud EXCEPT ![worker[p].of] = "running"]
                \/ Turned(p, "reject") /\ cloud' = cloud
                \/ /\ Turned(p, "late")
                   /\ \E c \in {"none", "running"} : cloud' = [cloud EXCEPT ![worker[p].of] = c]
             /\ worker'[p] \in Worker
  BY <1>1, GotoTurns DEF Upload
<1>2. ASSUME Reject(p)
      PROVE  (Rested(p) \/ (Turned(p, "undo") /\ worker[p].made)) /\ worker'[p] \in Worker
  BY <1>2, IdleRests, GotoTurns DEF Reject
<1>3. ASSUME Late(p) PROVE (Rested(p) \/ Turned(p, "cleanup")) /\ worker'[p] \in Worker
  BY <1>3, IdleRests, GotoTurns DEF Late, AfterLate
<1>4. ASSUME UndoPackage(p)
      PROVE  /\ \/ Rested(p) /\ pkg' = pkg
                \/ Turned(p, "undoCourse") /\ pkg' = [pkg EXCEPT ![worker[p].of] = NoRow]
             /\ worker'[p] \in Worker
  BY <1>4, IdleRests, GotoTurns DEF UndoPackage
<1>5. ASSUME Record(p) \/ Cleanup(p) \/ UndoCourse(p) PROVE Rested(p) /\ worker'[p] \in Worker
  BY <1>5, IdleRests DEF Record, Cleanup, UndoCourse
<1>6. (\E s : Turned(p, s)) \/ Rested(p) => Keeps(p)
  BY DEF Turned, Rested
<1> QED BY <1>1, <1>2, <1>3, <1>4, <1>5, <1>6

\* An import begins with a poll of what is in flight, on a course that may be its own.
LEMMA StartShape ==
  ASSUME TypeOK, Rows, NEW p \in Workers, Start(p)
  PROVE  /\ \/ Rested(p) /\ (GaveUp \/ pkg' = pkg) /\ course' = course
            \/ Polled(p) /\ course' = course
            \/ /\ Keeps(p) /\ worker'[p].pc = "start" /\ pkg' = pkg
               /\ worker'[p].made = (course = "absent")
         /\ worker'[p] \in Worker
<1> DEFINE old == {n \in Packages : Unbuilt(n) /\ pkg[n].job /\ pkg[n].age >= Stale}
           w == [Idle EXCEPT !.pc = "start", !.made = (course = "absent")]
<1>1. CASE old # {}
  <2>1. PICK n \in old : PollRow(p, n, "start") /\ course' = "present"
    BY <1>1 DEF Start
  <2>2. n \in InStatus("PROCESSING")
    BY DEF Unbuilt
  <2>3. course = "present"
    BY <2>2 DEF Rows
  <2> HIDE DEF old
  <2> QED BY <2>1, <2>2, <2>3, PollShape
<1>2. CASE old = {}
  <2>1. Become(p, w) /\ pkg' = pkg
    BY <1>2 DEF Start
  <2>2. w \in Worker /\ w.pc = "start" /\ w.made = (course = "absent")
    BY IdleWorker DEF Idle, Worker, Steps, Starting
  <2> HIDE DEF w
  <2> QED BY <2>1, <2>2, BecomeAt
<1> QED BY <1>1, <1>2

\* What is in flight refuses an import or is given up for it.
LEMMA StartTxShape ==
  ASSUME TypeOK, NEW p \in Workers, StartTx(p)
  PROVE  /\ \/ Rested(p) /\ pkg' = pkg /\ raced' = raced
            \/ LET n == worker'[p].of IN
               /\ Keeps(p) /\ worker'[p].pc = "upload"
               /\ worker'[p].made = worker[p].made
               /\ n \in Packages /\ ~Exists(n) /\ course = "present"
               /\ \A m \in InStatus("PROCESSING") : ~pkg[m].tree \/ pkg[m].age = HardCap
               /\ pkg' = [m \in Packages |->
                    IF m = n THEN [NoRow EXCEPT !.status = "PROCESSING"]
                    ELSE IF m \in InStatus("PROCESSING")
                    THEN [pkg[m] EXCEPT !.status = "FAILED"] ELSE pkg[m]]
               /\ raced' = (raced \/ \E q \in Workers \ {p} :
                                       worker[q].pc \in Destroying \/ MayTakeBack(q))
         /\ worker'[p] \in Worker
<1> DEFINE n == Newest + 1
           w == [worker[p] EXCEPT !.pc = "upload", !.of = n]
<1>1. CASE Become(p, Idle) /\ pkg' = pkg /\ raced' = raced
  BY <1>1, IdleRests
<1>2. CASE Newest < MaxPackages /\ Become(p, w)
  <2>0. Newest \in Nat
    BY NewestIs, Constants
  <2>1. n \in Packages
    BY <1>2, <2>0, Constants
  <2>2. ~Exists(n)
    BY <2>0, <2>1, NewestIs
  <2>3. w \in Worker /\ w.pc = "upload" /\ w.of = n /\ w.made = worker[p].made
    <3>1. worker[p] \in Worker
      BY DEF TypeOK
    <3> QED BY <2>1, <3>1 DEF Worker, Steps, Starting
  <2>4. worker'[p] = w /\ Keeps(p)
    <3> HIDE DEF w
    <3> QED BY <1>2, BecomeAt
  <2>5. worker'[p].of = n
    BY <2>3, <2>4
  <2>6. /\ course = "present"
        /\ \A m \in InStatus("PROCESSING") : Dead(m)
        /\ pkg' = [m \in Packages |->
             IF m = n THEN [NoRow EXCEPT !.status = "PROCESSING"]
             ELSE IF m \in InStatus("PROCESSING")
             THEN [pkg[m] EXCEPT !.status = "FAILED"] ELSE pkg[m]]
        /\ raced' = (raced \/ \E q \in Workers \ {p} :
                                worker[q].pc \in Destroying \/ MayTakeBack(q))
    <3>1. ~Become(p, Idle)
      <4>1. worker'[p].pc = "upload"
        BY <2>3, <2>4
      <4>2. Become(p, Idle) => worker'[p] = Idle
        <5> HIDE DEF w, n
        <5> QED BY BecomeAt
      <4> HIDE DEF w, n
      <4> QED BY <4>1, <4>2 DEF Idle
    <3> QED BY <3>1 DEF StartTx, InFlight
  <2>7. \A m \in InStatus("PROCESSING") : ~pkg[m].tree \/ pkg[m].age = HardCap
    BY <2>6 DEF Dead, PastHardCap, Unbuilt
  <2> HIDE DEF n, w
  <2> QED BY <2>1, <2>2, <2>3, <2>4, <2>5, <2>6, <2>7
<1>3. \/ Become(p, Idle) /\ pkg' = pkg /\ raced' = raced
      \/ Newest < MaxPackages /\ Become(p, w)
  BY DEF StartTx
<1> QED BY <1>1, <1>2, <1>3

\* The sweep takes up a package that was superseded, and rests otherwise.
LEMMA SweepShape ==
  ASSUME TypeOK, NEW p \in Workers
  PROVE  /\ CheckPrune(p) =>
              \E n \in InStatus("SUPERSEDED") :
                /\ Keeps(p) /\ worker'[p].pc = "prune" /\ worker'[p].of = n
                /\ worker'[p].made = FALSE
         /\ PruneCloud(p) =>
              \/ Rested(p) /\ cloud' = cloud
              \/ Turned(p, "pruned") /\ cloud' = [cloud EXCEPT ![worker[p].of] = "gone"]
         /\ PruneMark(p) \/ CheckActivation(p) \/ Activate(p) \/ Crash(p) \/ Teardown(p)
              => Rested(p)
         /\ (\/ CheckPrune(p) \/ PruneCloud(p) \/ PruneMark(p) \/ CheckActivation(p)
             \/ Activate(p) \/ Crash(p) \/ Teardown(p))
              => worker'[p] \in Worker /\ Keeps(p)
<1> USE DEF Steps
<1>1. ASSUME CheckPrune(p)
      PROVE  /\ \E n \in InStatus("SUPERSEDED") :
                  /\ Keeps(p) /\ worker'[p].pc = "prune" /\ worker'[p].of = n
                  /\ worker'[p].made = FALSE
             /\ worker'[p] \in Worker
  <2>1. PICK n \in InStatus("SUPERSEDED") : Become(p, [Idle EXCEPT !.pc = "prune", !.of = n])
    BY <1>1 DEF CheckPrune
  <2> DEFINE w == [Idle EXCEPT !.pc = "prune", !.of = n]
  <2>2. w \in Worker /\ w.pc = "prune" /\ w.of = n /\ w.made = FALSE
    BY IdleWorker DEF Idle, Worker
  <2>3. Become(p, w)
    BY <2>1
  <2> HIDE DEF w
  <2> QED BY <2>2, <2>3, BecomeAt
<1>2. ASSUME PruneCloud(p)
      PROVE  /\ \/ Rested(p) /\ cloud' = cloud
                \/ Turned(p, "pruned") /\ cloud' = [cloud EXCEPT ![worker[p].of] = "gone"]
             /\ worker'[p] \in Worker
  BY <1>2, IdleRests, GotoTurns DEF PruneCloud
<1>3. ASSUME PruneMark(p) \/ Activate(p) \/ Crash(p) \/ Teardown(p)
      PROVE  Rested(p) /\ worker'[p] \in Worker
  BY <1>3, IdleRests DEF PruneMark, Activate, Crash, Teardown
<1>4. ASSUME CheckActivation(p) PROVE Rested(p) /\ worker'[p] \in Worker
  <2> DEFINE w == [Idle EXCEPT !.pc = "activate"]
  <2>1. w \in Worker /\ w.pc = "activate" /\ w.made = FALSE
    BY IdleWorker DEF Idle, Worker
  <2>2. Become(p, w)
    BY <1>4 DEF CheckActivation
  <2> HIDE DEF w
  <2> QED BY <2>1, <2>2, BecomeAt DEF Rested
<1>5. (\E s : Turned(p, s)) \/ Rested(p) => Keeps(p)
  BY DEF Turned, Rested
<1> QED BY <1>1, <1>2, <1>3, <1>4, <1>5

\* A destruction lists its Cloud courses and takes them one after another.
LEMMA DestroyShape ==
  ASSUME TypeOK, NEW p \in Workers
  PROVE  /\ Gather(p) =>
              /\ Keeps(p) /\ worker'[p].pc = "close" /\ worker'[p].made = FALSE
              /\ worker'[p].todo = {n \in Packages : pkg[n].status \notin {"none", "PRUNED"}}
              /\ worker'[p].done = {}
         /\ Close(p) => Turned(p, "purge")
         /\ PurgeCloud(p) =>
              \/ Turned(p, "settle") /\ cloud' = cloud
              \/ \E n \in worker[p].todo :
                   /\ Keeps(p) /\ worker'[p].pc = "purge" /\ worker'[p].made = worker[p].made
                   /\ worker'[p].todo = worker[p].todo \ {n}
                   /\ \/ /\ cloud' = [cloud EXCEPT ![n] = IF @ \in OnCloud THEN "gone" ELSE @]
                         /\ worker'[p].done = worker[p].done \cup {n}
                      \/ n \in refused' /\ worker'[p].done = worker[p].done
         /\ Settle(p) => Rested(p) \/ (Turned(p, "teardown") /\ worker[p].todo = {})
         /\ Gather(p) \/ Close(p) \/ PurgeCloud(p) \/ Settle(p)
              => worker'[p] \in Worker /\ Keeps(p)
<1> USE DEF Steps, Destroying
<1>1. ASSUME Gather(p)
      PROVE  /\ Keeps(p) /\ worker'[p].pc = "close" /\ worker'[p].made = FALSE
             /\ worker'[p].todo = {n \in Packages : pkg[n].status \notin {"none", "PRUNED"}}
             /\ worker'[p].done = {}
             /\ worker'[p] \in Worker
  <2> DEFINE named == {n \in Packages : pkg[n].status \notin {"none", "PRUNED"}}
             w == [Idle EXCEPT !.pc = "close", !.todo = named]
  <2>1. named \in SUBSET Packages
    OBVIOUS
  <2>2. Become(p, w)
    BY <1>1 DEF Gather
  <2> HIDE DEF named
  <2>3. w \in Worker /\ w.pc = "close" /\ w.made = FALSE /\ w.todo = named /\ w.done = {}
    BY <2>1, IdleWorker DEF Idle, Worker
  <2> HIDE DEF w
  <2>4. worker'[p] = w /\ Keeps(p)
    BY <2>2, BecomeAt
  <2> QED BY <2>3, <2>4 DEF named
<1>2. ASSUME Close(p) PROVE Turned(p, "purge") /\ worker'[p] \in Worker
  BY <1>2, GotoTurns DEF Close
<1>3. ASSUME PurgeCloud(p)
      PROVE  /\ \/ Turned(p, "settle") /\ cloud' = cloud
                \/ \E n \in worker[p].todo :
                     /\ Keeps(p) /\ worker'[p].pc = "purge" /\ worker'[p].made = worker[p].made
                     /\ worker'[p].todo = worker[p].todo \ {n}
                     /\ \/ /\ cloud' = [cloud EXCEPT ![n] = IF @ \in OnCloud THEN "gone" ELSE @]
                           /\ worker'[p].done = worker[p].done \cup {n}
                        \/ n \in refused' /\ worker'[p].done = worker[p].done
             /\ worker'[p] \in Worker /\ Keeps(p)
  <2>0. worker[p] \in Worker /\ worker[p].pc = "purge"
    <3>1. worker[p] \in Worker
      BY DEF TypeOK
    <3> QED BY <1>3, <3>1 DEF PurgeCloud, At
  <2>1. CASE Goto(p, "settle") /\ cloud' = cloud
    BY <2>1, GotoTurns DEF Turned
  <2>2. ASSUME NEW n \in worker[p].todo,
               cloud' = [cloud EXCEPT ![n] = IF @ \in OnCloud THEN "gone" ELSE @],
               Become(p, [worker[p] EXCEPT !.todo = @ \ {n}, !.done = @ \cup {n}])
        PROVE  /\ Keeps(p) /\ worker'[p].pc = "purge" /\ worker'[p].made = worker[p].made
               /\ worker'[p].todo = worker[p].todo \ {n}
               /\ worker'[p].done = worker[p].done \cup {n}
               /\ worker'[p] \in Worker
    <3> DEFINE w == [worker[p] EXCEPT !.todo = @ \ {n}, !.done = @ \cup {n}]
    <3>1. n \in Packages
      BY <2>0 DEF Worker
    <3>2. /\ w \in Worker /\ w.pc = "purge" /\ w.made = worker[p].made
          /\ w.todo = worker[p].todo \ {n} /\ w.done = worker[p].done \cup {n}
      BY <2>0, <3>1 DEF Worker
    <3>3. Become(p, w)
      BY <2>2
    <3> HIDE DEF w
    <3>4. worker'[p] = w /\ Keeps(p)
      BY <3>3, BecomeAt
    <3> QED BY <3>2, <3>4
  <2>3. ASSUME NEW n \in worker[p].todo, Become(p, [worker[p] EXCEPT !.todo = @ \ {n}])
        PROVE  /\ Keeps(p) /\ worker'[p].pc = "purge" /\ worker'[p].made = worker[p].made
               /\ worker'[p].todo = worker[p].todo \ {n}
               /\ worker'[p].done = worker[p].done
               /\ worker'[p] \in Worker
    <3> DEFINE w == [worker[p] EXCEPT !.todo = @ \ {n}]
    <3>1. /\ w \in Worker /\ w.pc = "purge" /\ w.made = worker[p].made
          /\ w.todo = worker[p].todo \ {n} /\ w.done = worker[p].done
      BY <2>0 DEF Worker
    <3>2. Become(p, w)
      BY <2>3
    <3> HIDE DEF w
    <3>3. worker'[p] = w /\ Keeps(p)
      BY <3>2, BecomeAt
    <3> QED BY <3>1, <3>3
  <2>4. \/ Goto(p, "settle") /\ cloud' = cloud
        \/ \E n \in worker[p].todo :
             /\ cloud' = [cloud EXCEPT ![n] = IF @ \in OnCloud THEN "gone" ELSE @]
             /\ Become(p, [worker[p] EXCEPT !.todo = @ \ {n}, !.done = @ \cup {n}])
        \/ \E n \in worker[p].todo :
             Become(p, [worker[p] EXCEPT !.todo = @ \ {n}]) /\ n \in refused'
    BY <1>3 DEF PurgeCloud
  <2>5. CASE \E n \in worker[p].todo :
             /\ cloud' = [cloud EXCEPT ![n] = IF @ \in OnCloud THEN "gone" ELSE @]
             /\ Become(p, [worker[p] EXCEPT !.todo = @ \ {n}, !.done = @ \cup {n}])
    BY <2>2, <2>5
  <2>6. CASE \E n \in worker[p].todo :
             Become(p, [worker[p] EXCEPT !.todo = @ \ {n}]) /\ n \in refused'
    BY <2>3, <2>6
  <2> QED BY <2>1, <2>4, <2>5, <2>6
<1>4. ASSUME Settle(p)
      PROVE  (Rested(p) \/ (Turned(p, "teardown") /\ worker[p].todo = {})) /\ worker'[p] \in Worker
  BY <1>4, IdleRests, GotoTurns DEF Settle
<1>5. (\E s : Turned(p, s)) \/ Rested(p) => Keeps(p)
  BY DEF Turned, Rested
<1> QED BY <1>1, <1>2, <1>3, <1>4, <1>5

-----------------------------------------------------------------------------
(* What a step does to the rows. *)

\* Marking a row changes its status and no other row.
LEMMA MarkAt ==
  ASSUME TypeOK, NEW n \in Packages, NEW s, pkg' = [pkg EXCEPT ![n].status = s]
  PROVE  /\ pkg'[n] = [pkg[n] EXCEPT !.status = s]
         /\ \A m \in Packages \ {n} : pkg'[m] = pkg[m]
  BY DEF TypeOK

\* A row that is given up fails, and the others stay.
LEMMA GaveUpMoves ==
  ASSUME TypeOK, GaveUp \/ pkg' = pkg
  PROVE  \A n \in Packages : Moves(n)
<1>1. CASE GaveUp
  <2>1. PICK n \in Packages :
          /\ pkg[n].status = "PROCESSING" /\ (~pkg[n].tree \/ pkg[n].age = HardCap)
          /\ pkg' = [pkg EXCEPT ![n].status = "FAILED"]
    BY <1>1 DEF GaveUp
  <2>2. Fails(n) /\ \A m \in Packages \ {n} : Stays(m)
    BY <2>1, MarkAt DEF Fails, Stays
  <2> QED BY <2>2 DEF Moves
<1>2. CASE pkg' = pkg
  BY <1>2 DEF Moves, Stays
<1> QED BY <1>1, <1>2

\* Every step of a worker moves the rows in one of these ways.
LEMMA PollMoves ==
  ASSUME IInv, NEW p \in Workers, NEW n \in Packages,
         \/ AskCloud(p) \/ Prepare(p) \/ Build(p) \/ Finish(p) \/ Publish(p) \/ MarkReady(p)
         \/ Poll(p) \/ Start(p)
  PROVE  Moves(n)
<1> USE DEF IInv
<1> DEFINE o == worker[p].of
<1>0. TypeOK /\ (\A m \in Packages : pkg[m].status \in Statuses)
  BY DEF TypeOK, Row
<1>1. CASE AskCloud(p)
  <2>1. o \in Packages
    BY <1>1 DEF AskCloud, At, Handled, Handling, Polling
  <2>2. \/ pkg' = pkg
        \/ Unbuilt(o) /\ pkg' = [pkg EXCEPT ![o].status = "FAILED"]
        \/ /\ cloud[o] = "error" /\ pkg[o].status = "PROCESSING"
           /\ pkg' = [pkg EXCEPT ![o].status = "FAILED"]
    BY <1>1 DEF AskCloud, MarkIf, Mark
  <2>3. cloud[o] = "error" => ~pkg[o].tree
    BY <2>1 DEF Rows
  <2>4. GaveUp \/ pkg' = pkg
    BY <2>1, <2>2, <2>3 DEF GaveUp, Unbuilt
  <2> QED BY <2>4, GaveUpMoves
<1>2. CASE Prepare(p)
  <2>1. o \in Packages
    BY <1>2 DEF Prepare, At, Handled, Handling, Polling
  <2>2. GaveUp \/ pkg' = pkg
    BY <1>2, <2>1 DEF Prepare, MarkIf, Mark, GaveUp, Unbuilt
  <2> QED BY <2>2, GaveUpMoves
<1>3. CASE Build(p)
  <2>1. o \in Packages /\ cloud[o] \in {"complete", "gone"} /\ (course # "deleted" => pkg[o].job)
    BY <1>3 DEF Build, At, Handled, Handling, Polling
  <2>2. \/ Unbuilt(o) /\ pkg' = WithTree(o) /\ live' = o
        \/ pkg' = pkg
        \/ Unbuilt(o) /\ pkg' = [pkg EXCEPT ![o].status = "FAILED"]
    BY <1>3 DEF Build, MarkIf, Mark, StillUnbuilt
  <2>3. CASE Unbuilt(o) /\ pkg' = WithTree(o) /\ live' = o
    <3>1. course = "present"
      BY <2>1, <2>3 DEF Unbuilt, Rows
    <3>2. CASE n = o
      <4>1. pkg'[o] = [pkg[o] EXCEPT !.tree = TRUE]
        BY <2>1, <2>3 DEF WithTree
      <4>2. GetsTree(o)
        BY <2>1, <2>3, <3>1, <4>1 DEF GetsTree, Unbuilt
      <4> QED BY <3>2, <4>2 DEF Moves
    <3>3. CASE n # o
      <4>1. \/ pkg'[n] = pkg[n]
            \/ /\ pkg[n].status = "READY"
               /\ pkg'[n] = [pkg[n] EXCEPT !.status = "SUPERSEDED"]
        BY <2>3, <3>3 DEF WithTree
      <4> QED BY <4>1 DEF Moves, Stays, GivesWay
    <3> QED BY <3>2, <3>3
  <2>4. CASE pkg' = pkg \/ (Unbuilt(o) /\ pkg' = [pkg EXCEPT ![o].status = "FAILED"])
    <3>1. GaveUp \/ pkg' = pkg
      BY <2>1, <2>4 DEF GaveUp, Unbuilt
    <3> QED BY <3>1, GaveUpMoves
  <2> QED BY <2>2, <2>3, <2>4
<1>4. CASE Finish(p) \/ Publish(p)
  BY <1>4 DEF Finish, Publish, Moves, Stays
<1>5. CASE MarkReady(p)
  <2>1. o \in Packages /\ At(p, "ready")
    BY <1>5 DEF MarkReady, At, Handled, Handling, Polling
  <2>2. CASE pkg' = pkg
    BY <2>2 DEF Moves, Stays
  <2>3. CASE pkg[o].status = "PROCESSING" /\ pkg' = [pkg EXCEPT ![o].status = "READY"]
    <3>1. course = "present"
      BY <2>1, <2>3 DEF Rows
    <3>2. pkg[o].tree
      BY <2>1, <3>1 DEF Built, At
    <3>3. published = o /\ \A q \in Workers : At(q, "publish") => worker[q].of = o
      BY <2>1, <2>3 DEF NoneBehind
    <3>4. pkg'[o] = [pkg[o] EXCEPT !.status = "READY"] /\ \A m \in Packages \ {o} : pkg'[m] = pkg[m]
      BY <2>1, <2>3, <1>0, MarkAt
    <3>5. Succeeds(o)
      BY <1>5, <2>3, <3>2, <3>3, <3>4 DEF Succeeds, MarkReady, courseVars
    <3> QED BY <3>4, <3>5 DEF Moves, Stays
  <2> QED BY <1>5, <2>2, <2>3 DEF MarkReady, MarkIf, Mark
<1>6. CASE Poll(p)
  <2>1. PICK m \in InStatus("PROCESSING") : PollRow(p, m, "idle")
    BY <1>6 DEF Poll
  <2>2. GaveUp \/ pkg' = pkg
    BY <2>1, PollShape DEF Polled
  <2> QED BY <2>2, GaveUpMoves
<1>7. CASE Start(p)
  <2>1. GaveUp \/ pkg' = pkg
    BY <1>7, StartShape DEF Polled
  <2> QED BY <2>1, GaveUpMoves
<1> QED BY <1>1, <1>2, <1>3, <1>4, <1>5, <1>6, <1>7

LEMMA ImportMoves ==
  ASSUME IInv, NEW p \in Workers, NEW n \in Packages,
         \/ StartTx(p) \/ Upload(p) \/ Record(p) \/ Reject(p) \/ Late(p) \/ Cleanup(p)
         \/ UndoPackage(p) \/ UndoCourse(p)
  PROVE  Moves(n)
<1> USE DEF IInv
<1> DEFINE o == worker[p].of
<1>0. TypeOK
  OBVIOUS
<1>1. CASE StartTx(p)
  <2> DEFINE k == worker'[p].of
  <2>1. CASE pkg' = pkg
    BY <2>1 DEF Moves, Stays
  <2>2. CASE /\ Keeps(p) /\ worker'[p].pc = "upload"
             /\ k \in Packages /\ ~Exists(k) /\ course = "present"
             /\ \A m \in InStatus("PROCESSING") : ~pkg[m].tree \/ pkg[m].age = HardCap
             /\ pkg' = [m \in Packages |->
                  IF m = k THEN [NoRow EXCEPT !.status = "PROCESSING"]
                  ELSE IF m \in InStatus("PROCESSING")
                  THEN [pkg[m] EXCEPT !.status = "FAILED"] ELSE pkg[m]]
    <3> PICK j : j = k
      OBVIOUS
    <3> HIDE DEF k
    <3>1. course' = "present"
      BY <1>1, <2>2 DEF StartTx
    <3>2. \A m \in Packages : pkg[m] \in Row
      BY DEF TypeOK
    <3>3. ASSUME NEW m \in Packages, m # k PROVE pkg'[m].status # "PROCESSING"
      BY <2>2, <3>2, <3>3 DEF Row
    <3>4. CASE n = k
      <4>1. Comes(n)
        BY <2>2, <3>1, <3>3, <3>4 DEF Comes, k
      <4> QED BY <4>1 DEF Moves
    <3>5. CASE n # k
      BY <2>2, <3>5 DEF Moves, Stays, Fails
    <3> QED BY <3>4, <3>5
  <2> QED BY <1>1, <2>1, <2>2, StartTxShape
<1>2. CASE Upload(p) \/ Cleanup(p)
  BY <1>2 DEF Upload, Cleanup, Moves, Stays
<1>3. CASE Record(p)
  <2>1. o \in Packages /\ ~pkg[o].job /\ ~pkg[o].tree /\ At(p, "record")
    BY <1>3 DEF Record, At, Owned, NoJobYet, Owning, Rows
  <2>2. CASE Exists(o) /\ pkg' = [pkg EXCEPT ![o].job = TRUE]
    <3>1. pkg'[o] = [pkg[o] EXCEPT !.job = TRUE] /\ \A m \in Packages \ {o} : pkg'[m] = pkg[m]
      BY <2>1, <2>2 DEF TypeOK
    <3>2. GetsJob(o)
      BY <1>3, <2>1, <2>2, <3>1, ImportShape DEF GetsJob
    <3> QED BY <3>1, <3>2 DEF Moves, Stays
  <2>3. CASE GaveUp \/ pkg' = pkg
    BY <2>3, GaveUpMoves
  <2> QED BY <1>3, <2>1, <2>2, <2>3 DEF Record, MarkIf, Mark, GaveUp
<1>4. CASE Reject(p) \/ Late(p)
  <2>1. o \in Packages /\ ~pkg[o].tree
    BY <1>4 DEF Reject, Late, At, Owned, NoJobYet, Owning, Rows
  <2>2. pkg' = pkg \/ (Exists(o) /\ pkg' = [pkg EXCEPT ![o].status = "FAILED"])
    BY <1>4 DEF Reject, Late, MarkIf, Mark
  <2>3. CASE Exists(o) /\ pkg' = [pkg EXCEPT ![o].status = "FAILED"]
    <3>1. pkg'[o] = [pkg[o] EXCEPT !.status = "FAILED"] /\ \A m \in Packages \ {o} : pkg'[m] = pkg[m]
      BY <2>1, <2>3, MarkAt
    <3> QED BY <2>1, <2>3, <3>1 DEF Moves, Fails, Stays
  <2> QED BY <2>2, <2>3 DEF Moves, Stays
<1>5. CASE UndoPackage(p)
  <2>1. o \in Packages /\ At(p, "undo")
    BY <1>5 DEF UndoPackage, At, Owned, Owning
  <2>2. CASE Turned(p, "undoCourse") /\ pkg' = [pkg EXCEPT ![o] = NoRow]
    <3>1. pkg'[o] = NoRow /\ \A m \in Packages \ {o} : pkg'[m] = pkg[m]
      BY <2>1, <2>2 DEF TypeOK
    <3>2. Goes(o)
      BY <2>1, <2>2, <3>1 DEF Goes
    <3> QED BY <3>1, <3>2 DEF Moves, Stays
  <2>3. CASE pkg' = pkg
    BY <2>3 DEF Moves, Stays
  <2> QED BY <1>5, <2>2, <2>3, ImportShape
<1>6. CASE UndoCourse(p)
  BY <1>6 DEF UndoCourse, DeleteCourse, Moves, Stays, Goes
<1> QED BY <1>1, <1>2, <1>3, <1>4, <1>5, <1>6

LEMMA SweepMoves ==
  ASSUME IInv, NEW p \in Workers, NEW n \in Packages,
         \/ CheckActivation(p) \/ Activate(p) \/ Deactivate(p) \/ CheckPrune(p) \/ PruneCloud(p)
         \/ PruneMark(p) \/ Gather(p) \/ Close(p) \/ PurgeCloud(p) \/ Settle(p) \/ Teardown(p)
         \/ Crash(p)
  PROVE  Moves(n)
<1> USE DEF IInv
<1> DEFINE o == worker[p].of
<1>1. CASE \/ CheckActivation(p) \/ Activate(p) \/ Deactivate(p) \/ CheckPrune(p) \/ PruneCloud(p)
           \/ Gather(p) \/ Close(p) \/ PurgeCloud(p) \/ Crash(p)
  BY <1>1 DEF CheckActivation, Activate, Deactivate, CheckPrune, PruneCloud, Gather, Close,
              PurgeCloud, Crash, courseVars, Moves, Stays
<1>2. CASE PruneMark(p)
  <2>1. o \in Packages
    BY <1>2 DEF PruneMark, At, Handled, Handling
  <2>2. CASE Exists(o) /\ pkg' = [pkg EXCEPT ![o].status = "PRUNED"]
    <3>1. /\ pkg'[o] = [pkg[o] EXCEPT !.status = "PRUNED"]
          /\ \A m \in Packages \ {o} : pkg'[m] = pkg[m]
      BY <2>1, <2>2, MarkAt
    <3>2. IsPruned(o)
      BY <1>2, <2>2, <3>1 DEF IsPruned, PruneMark
    <3> QED BY <3>1, <3>2 DEF Moves, Stays
  <2>3. CASE pkg' = pkg
    BY <2>3 DEF Moves, Stays
  <2> QED BY <1>2, <2>2, <2>3 DEF PruneMark, MarkIf, Mark
<1>3. CASE Settle(p)
  BY <1>3 DEF Settle, Moves, IsPruned, Stays
<1>4. CASE Teardown(p)
  BY <1>4 DEF Teardown, DeleteCourse, Moves, Stays, Goes
<1> QED BY <1>1, <1>2, <1>3, <1>4

\* Every step moves the rows in one of these ways.
LEMMA MovesStep == IInv /\ [Next]_vars => \A n \in Packages : Moves(n)
<1> SUFFICES ASSUME IInv, [Next]_vars, NEW n \in Packages PROVE Moves(n)
  OBVIOUS
<1> USE Constants
<1>1. ASSUME NEW m \in Packages, Age(m) PROVE Moves(n)
  <2>1. pkg' = [pkg EXCEPT ![m].age = @ + 1] /\ pkg[m].status = "PROCESSING" /\ pkg[m].age < HardCap
    BY <1>1 DEF Age
  <2>2. pkg'[m] = [pkg[m] EXCEPT !.age = @ + 1] /\ \A k \in Packages \ {m} : pkg'[k] = pkg[k]
    BY <2>1 DEF IInv, TypeOK
  <2> QED BY <2>1, <2>2 DEF Moves, Ages, Stays
<1>2. ASSUME NEW p \in Workers, Continue(p) PROVE Moves(n)
  BY <1>2, PollMoves, ImportMoves, SweepMoves DEF Continue
<1>3. ASSUME NEW p \in Workers,
             \/ Poll(p) \/ Crash(p) \/ Start(p) \/ CheckActivation(p) \/ Deactivate(p) \/ Gather(p)
             \/ CheckPrune(p)
      PROVE  Moves(n)
  BY <1>3, PollMoves, SweepMoves
<1>4. CASE Pin \/ UNCHANGED vars \/ \E m \in Packages : CloudWork(m)
  BY <1>4 DEF Pin, vars, CloudWork, Moves, Stays
<1> QED BY <1>1, <1>2, <1>3, <1>4 DEF Next

\* Every step moves the courses on Cloud in one of those ways.
LEMMA CloudStep == IInv /\ [Next]_vars => \A n \in Packages : CloudMoves(n)
<1> SUFFICES ASSUME IInv, [Next]_vars, NEW n \in Packages PROVE CloudMoves(n)
  OBVIOUS
<1> USE Constants DEF IInv
<1>0. cloud \in [Packages -> Clouds] /\ TypeOK
  BY DEF TypeOK
<1>1. CASE cloud' = cloud
  BY <1>1 DEF CloudMoves
<1>2. ASSUME NEW m \in Packages, CloudWork(m) PROVE CloudMoves(n)
  BY <1>0, <1>2 DEF CloudWork, CloudMoves
<1>3. ASSUME NEW p \in Workers, Crash(p) \/ Upload(p) PROVE CloudMoves(n)
  <2>1. CASE cloud' = cloud
    BY <2>1 DEF CloudMoves
  <2>2. CASE /\ At(p, "upload") /\ worker'[p].pc # "upload"
             /\ \E c \in {"none", "running"} : cloud' = [cloud EXCEPT ![worker[p].of] = c]
    BY <1>0, <2>2 DEF CloudMoves
  <2>3. CASE Crash(p)
    <3>1. worker'[p].pc # "upload"
      BY <1>0, <2>3, SweepShape DEF Rested
    <3>2. cloud' = cloud \/ (At(p, "upload") /\ cloud' = [cloud EXCEPT ![worker[p].of] = "running"])
      BY <2>3 DEF Crash
    <3> QED BY <2>1, <2>2, <3>1, <3>2
  <2>4. CASE Upload(p)
    <3>1. worker'[p].pc # "upload" /\ At(p, "upload")
      BY <1>0, <2>4, ImportShape DEF Turned, Upload
    <3>2. \/ cloud' = cloud
          \/ \E c \in {"none", "running"} : cloud' = [cloud EXCEPT ![worker[p].of] = c]
      BY <2>4 DEF Upload
    <3> QED BY <2>1, <2>2, <3>1, <3>2
  <2> QED BY <1>3, <2>3, <2>4
<1>4. ASSUME NEW p \in Workers, Cleanup(p) \/ PruneCloud(p) PROVE CloudMoves(n)
  BY <1>0, <1>4 DEF Cleanup, PruneCloud, CloudMoves
<1>5. ASSUME NEW p \in Workers, PurgeCloud(p) PROVE CloudMoves(n)
  <2>1. \/ cloud' = cloud
        \/ \E m \in worker[p].todo : cloud' = [cloud EXCEPT ![m] = IF @ \in OnCloud THEN "gone" ELSE @]
    BY <1>5 DEF PurgeCloud
  <2> QED BY <1>0, <2>1 DEF CloudMoves
<1>6. ASSUME NEW p \in Workers, Continue(p) PROVE CloudMoves(n)
  <2>1. CASE \/ AskCloud(p) \/ Prepare(p) \/ Build(p) \/ Finish(p) \/ Publish(p) \/ MarkReady(p)
             \/ StartTx(p) \/ Record(p) \/ Reject(p) \/ Late(p)
             \/ UndoPackage(p) \/ UndoCourse(p) \/ Activate(p) \/ PruneMark(p)
             \/ Close(p) \/ Settle(p) \/ Teardown(p)
    BY <1>1, <2>1
    DEF AskCloud, Prepare, Build, Finish, Publish, MarkReady, StartTx, Record, Reject, Late,
        UndoPackage, UndoCourse, Activate, PruneMark, Close, Settle, Teardown
  <2> QED BY <1>3, <1>4, <1>5, <1>6, <2>1 DEF Continue
<1>7. ASSUME NEW p \in Workers,
             Poll(p) \/ Start(p) \/ CheckActivation(p) \/ Deactivate(p) \/ Gather(p) \/ CheckPrune(p)
      PROVE  CloudMoves(n)
  BY <1>1, <1>7 DEF Poll, Start, CheckActivation, Deactivate, Gather, CheckPrune
<1>8. CASE Pin \/ UNCHANGED vars \/ \E m \in Packages : Age(m)
  BY <1>1, <1>8 DEF Pin, vars, Age
<1> QED BY <1>2, <1>3, <1>6, <1>7, <1>8 DEF Next

\* Every step does one of those things to the course.
LEMMA CourseStep ==
  IInv /\ [Next]_vars => CourseMoves /\ LiveMoves /\ PublishedMoves /\ (raced => raced')
<1> SUFFICES ASSUME IInv, [Next]_vars
             PROVE  CourseMoves /\ LiveMoves /\ PublishedMoves /\ (raced => raced')
  OBVIOUS
<1> DEFINE Calm == course' = course /\ live' = live /\ published' = published /\ (raced => raced')
           Goal == CourseMoves /\ LiveMoves /\ PublishedMoves /\ (raced => raced')
<1>0. Calm => Goal
  BY DEF CourseMoves, LiveMoves, PublishedMoves
<1>1. TypeOK /\ course \in {"absent", "present", "deleted"}
  BY DEF IInv, TypeOK
<1> HIDE DEF Goal
<1>2. ASSUME NEW p \in Workers, Continue(p) PROVE Goal
  <2>1. CASE Build(p)
    <3>1. CASE live' = live
      BY <1>0, <2>1, <3>1 DEF Build
    <3>2. CASE /\ Unbuilt(worker[p].of) /\ pkg' = WithTree(worker[p].of)
               /\ live' = worker[p].of
      <4> DEFINE o == worker[p].of
      <4>1. o \in Packages /\ cloud[o] \in {"complete", "gone"} /\ (course # "deleted" => pkg[o].job)
        BY <2>1 DEF IInv, Build, At, Handled, Handling, Polling
      <4>2. course = "present"
        BY <3>2, <4>1 DEF IInv, Unbuilt, Rows
      <4>3. pkg'[o] = [pkg[o] EXCEPT !.tree = TRUE]
        BY <3>2, <4>1 DEF WithTree
      <4>4. GetsTree(o)
        BY <3>2, <4>1, <4>2, <4>3 DEF GetsTree, Unbuilt
      <4>5. LiveMoves
        BY <3>2, <4>1, <4>4 DEF LiveMoves
      <4>6. course' = course /\ published' = published /\ raced' = raced
        BY <2>1 DEF Build
      <4> QED BY <4>5, <4>6 DEF Goal, CourseMoves, PublishedMoves
    <3> QED BY <1>1, <2>1, <3>1, <3>2, PollingShape
  <2>2. CASE Publish(p)
    <3>1. /\ course' = course /\ live' = live /\ raced' = raced
          /\ published' = published
             \/ (At(p, "publish") /\ published' = worker[p].tree /\ pkg' = pkg)
      BY <2>2 DEF Publish
    <3> QED BY <3>1 DEF Goal, CourseMoves, LiveMoves, PublishedMoves
  <2>3. CASE UndoCourse(p) \/ Teardown(p)
    <3>1. Calm \/ (course = "present" /\ course' = "deleted" /\ Wiped /\ raced' = raced)
      BY <2>3 DEF UndoCourse, Teardown, DeleteCourse, Wiped
    <3> QED BY <1>0, <3>1 DEF Goal, CourseMoves, LiveMoves, PublishedMoves
  <2>4. CASE \/ AskCloud(p) \/ Prepare(p) \/ Finish(p) \/ MarkReady(p)
             \/ Upload(p) \/ Record(p) \/ Reject(p) \/ Late(p) \/ Cleanup(p)
             \/ UndoPackage(p) \/ Activate(p) \/ PruneCloud(p) \/ PruneMark(p)
             \/ Close(p) \/ PurgeCloud(p) \/ Settle(p)
    <3>1. ASSUME AskCloud(p) \/ Prepare(p) \/ Finish(p) \/ MarkReady(p) PROVE Calm
      BY <3>1 DEF AskCloud, Prepare, Finish, MarkReady, courseVars
    <3>2. ASSUME \/ Upload(p) \/ Record(p) \/ Reject(p) \/ Late(p) \/ Cleanup(p)
                 \/ UndoPackage(p)
          PROVE  Calm
      BY <3>2 DEF Upload, Record, Reject, Late, Cleanup, UndoPackage, courseVars
    <3>3. ASSUME \/ Activate(p) \/ PruneCloud(p) \/ PruneMark(p)
                 \/ Close(p) \/ PurgeCloud(p) \/ Settle(p)
          PROVE  Calm
      <4>1. CASE Activate(p) \/ PruneCloud(p) \/ PruneMark(p) \/ Close(p)
        BY <4>1 DEF Activate, PruneCloud, PruneMark, Close, courseVars
      <4>2. CASE PurgeCloud(p)
        BY <4>2 DEF PurgeCloud, courseVars
      <4>3. CASE Settle(p)
        BY <4>3 DEF Settle
      <4> QED BY <3>3, <4>1, <4>2, <4>3
    <3>4. Calm
      BY <2>4, <3>1, <3>2, <3>3
    <3> QED BY <1>0, <3>4
  <2>5. CASE StartTx(p)
    <3>1. course' = course /\ live' = live /\ published' = published
      BY <2>5 DEF StartTx
    <3>2. raced' = raced
          \/ raced' = (raced \/ \E q \in Workers \ {p} :
                                 worker[q].pc \in Destroying \/ MayTakeBack(q))
      BY <2>5 DEF StartTx
    <3>3. raced => raced'
      BY <3>2, Zenon
    <3> QED BY <1>0, <3>1, <3>3
  <2> QED BY <1>2, <2>1, <2>2, <2>3, <2>4, <2>5 DEF Continue
<1>3. ASSUME NEW p \in Workers, Start(p) PROVE Goal
  <2>1. /\ course # "deleted" /\ course' = "present"
        /\ live' = live /\ published' = published /\ raced' = raced
    BY <1>3 DEF Start
  <2> QED BY <1>1, <2>1 DEF Goal, CourseMoves, LiveMoves, PublishedMoves
<1>4. ASSUME NEW p \in Workers,
             Poll(p) \/ Crash(p) \/ CheckActivation(p) \/ Deactivate(p) \/ Gather(p) \/ CheckPrune(p)
      PROVE  Goal
  <2>1. course' = course /\ live' = live /\ published' = published
    BY <1>4 DEF Poll, Crash, CheckActivation, Deactivate, Gather, CheckPrune, courseVars
  <2>2. raced' = raced \/ raced' = (raced \/ \E q \in Workers : worker[q].pc \in Starting \ {"start"})
    BY <1>4 DEF Poll, Crash, CheckActivation, Deactivate, Gather, CheckPrune
  <2>3. raced => raced'
    BY <2>2, Zenon
  <2> QED BY <1>0, <2>1, <2>3
<1>5. ASSUME Pin \/ UNCHANGED vars \/ \E n \in Packages : Age(n) \/ CloudWork(n) PROVE Goal
  <2>1. Calm
    BY <1>5 DEF Pin, vars, Age, CloudWork, courseVars
  <2> QED BY <1>0, <2>1
<1>6. Goal
  BY <1>2, <1>3, <1>4, <1>5, Constants DEF Next
<1> QED BY <1>6 DEF Goal

\* Every step is a step of no worker, or of one that goes on in one of those ways.
LEMMA WorkStep ==
  IInv /\ [Next]_vars => worker' = worker \/ \E p \in Workers : WorkMoves(p)
<1> SUFFICES ASSUME IInv, [Next]_vars PROVE worker' = worker \/ \E p \in Workers : WorkMoves(p)
  OBVIOUS
<1>0. TypeOK /\ Rows /\ cloud \in [Packages -> Clouds] /\ worker \in [Workers -> Worker]
  BY DEF IInv, TypeOK
<1>1. ASSUME NEW p \in Workers, Rested(p) PROVE WorkMoves(p)
  BY <1>1 DEF Rested, WorkMoves, Rests
<1>2. ASSUME NEW p \in Workers, Polled(p) PROVE WorkMoves(p)
  <2>1. PICK n \in Packages : /\ worker'[p].of = n
                              /\ \/ worker'[p].pc = "ask" /\ pkg[n].job
                                 \/ worker'[p].pc = "finish" /\ pkg[n].tree
    BY <1>2 DEF Polled
  <2>2. pkg[n].tree => pkg[n].job
    BY <1>0 DEF Rows
  <2>3. Keeps(p) /\ worker'[p].made = FALSE
    BY <1>2 DEF Polled
  <2> QED BY <2>1, <2>2, <2>3 DEF WorkMoves, TakesUp
<1>3. ASSUME NEW p \in Workers, NEW s, Turned(p, s) PROVE Keeps(p)
  BY <1>3 DEF Turned
<1>4. ASSUME NEW p \in Workers, Continue(p) PROVE WorkMoves(p)
  <2>0. worker[p].pc \in Handling => worker[p].of \in Packages
    BY DEF IInv, Handled
  <2>1. CASE AskCloud(p) \/ Prepare(p) \/ MarkReady(p)
    <3>1. Rested(p) \/ PackageStep(p)
      BY <1>0, <2>1, PollingShape DEF PackageStep, AskCloud, Prepare
    <3> QED BY <1>1, <1>3, <3>1 DEF PackageStep, WorkMoves
  <2>2. CASE Build(p)
    <3>1. At(p, "build") /\ worker[p].of \in Packages
      BY <2>0, <2>2 DEF Build, At, Handling, Polling
    <3>2. pkg' = WithTree(worker[p].of) => pkg'[worker[p].of].tree
      BY <1>0, <3>1 DEF WithTree, TypeOK, Row
    <3>3. Rested(p) \/ PackageStep(p)
      BY <1>0, <2>2, <3>1, <3>2, PollingShape DEF PackageStep
    <3> QED BY <1>1, <1>3, <3>3 DEF PackageStep, WorkMoves
  <2>3. CASE Finish(p) \/ Publish(p)
    <3>1. Rested(p) \/ PackageStep(p)
      BY <1>0, <2>3, PollingShape, FinishShape DEF PackageStep, Finish, Publish
    <3> QED BY <1>1, <1>3, <3>1 DEF PackageStep, WorkMoves
  <2>4. CASE StartTx(p)
    <3>1. CASE Rested(p)
      BY <1>1, <3>1
    <3>2. CASE ~Rested(p)
      <4> DEFINE n == worker'[p].of
      <4>1. /\ Keeps(p) /\ worker'[p].pc = "upload"
            /\ worker'[p].made = worker[p].made
            /\ n \in Packages /\ ~Exists(n) /\ course = "present"
            /\ pkg' = [m \in Packages |->
                 IF m = n THEN [NoRow EXCEPT !.status = "PROCESSING"]
                 ELSE IF m \in InStatus("PROCESSING")
                 THEN [pkg[m] EXCEPT !.status = "FAILED"] ELSE pkg[m]]
            /\ raced' = (raced \/ \E q \in Workers \ {p} :
                                    worker[q].pc \in Destroying \/ MayTakeBack(q))
        BY <1>0, <2>4, <3>2, StartTxShape
      <4>2. At(p, "start") /\ course' = course /\ cloud' = cloud
        BY <2>4 DEF StartTx
      <4>3. ~raced' => \A q \in Workers \ {p} : worker[q].pc \notin Destroying /\ ~MayTakeBack(q)
        <5>1. raced' = (raced \/ \E q \in Workers \ {p} :
                                    worker[q].pc \in Destroying \/ MayTakeBack(q))
          BY <4>1
        <5> QED BY <5>1, Zenon
      <4>4. pkg'[n] = [NoRow EXCEPT !.status = "PROCESSING"]
        <5> PICK k : k = n
          OBVIOUS
        <5> HIDE DEF n
        <5> QED BY <4>1
      <4>5. Imports(p)
        BY <4>1, <4>2, <4>3, <4>4 DEF Imports
      <4> QED BY <4>1, <4>5 DEF WorkMoves
    <3> QED BY <3>1, <3>2
  <2>5. CASE \/ Upload(p) \/ Reject(p) \/ Late(p) \/ UndoPackage(p)
             \/ Record(p) \/ Cleanup(p) \/ UndoCourse(p)
    <3>1. Rested(p) \/ ImportStep(p)
      BY <1>0, <2>5, ImportShape DEF ImportStep, Upload, Reject, Late, UndoPackage
    <3> QED BY <1>1, <1>3, <3>1 DEF ImportStep, WorkMoves
  <2>6. CASE Activate(p) \/ PruneMark(p) \/ Teardown(p)
    BY <1>0, <1>1, <2>6, SweepShape
  <2>7. CASE PruneCloud(p)
    <3>1. At(p, "prune") /\ worker[p].of \in Packages
      BY <2>0, <2>7 DEF PruneCloud, At, Handling
    <3>2. Rested(p) \/ PackageStep(p)
      BY <1>0, <2>7, <3>1, SweepShape DEF PackageStep
    <3> QED BY <1>1, <1>3, <3>2 DEF PackageStep, WorkMoves
  <2>8. CASE Close(p) \/ Settle(p)
    <3>1. Rested(p) \/ DestroyStep(p)
      BY <1>0, <2>8, DestroyShape DEF DestroyStep, Close, Settle
    <3> QED BY <1>1, <1>3, <3>1 DEF DestroyStep, WorkMoves
  <2>9. CASE PurgeCloud(p)
    <3>1. At(p, "purge") /\ worker[p] \in Worker
      BY <1>0, <2>9 DEF PurgeCloud
    <3>2. CASE Turned(p, "settle")
      BY <1>3, <3>1, <3>2 DEF DestroyStep, WorkMoves
    <3>3. ASSUME NEW n \in worker[p].todo,
                 Keeps(p), worker'[p].pc = "purge", worker'[p].made = worker[p].made,
                 worker'[p].todo = worker[p].todo \ {n},
                 \/ /\ cloud' = [cloud EXCEPT ![n] = IF @ \in OnCloud THEN "gone" ELSE @]
                    /\ worker'[p].done = worker[p].done \cup {n}
                 \/ n \in refused' /\ worker'[p].done = worker[p].done
          PROVE  WorkMoves(p)
      <4>1. n \in Packages
        BY <3>1 DEF Worker
      <4>2. \/ cloud'[n] \notin OnCloud /\ worker'[p].done = worker[p].done \cup {n}
            \/ n \in refused' /\ worker'[p].done = worker[p].done
        BY <1>0, <3>3, <4>1 DEF OnCloud
      <4>3. Purges(p)
        BY <3>1, <3>3, <4>2 DEF Purges
      <4> QED BY <3>3, <4>3 DEF WorkMoves
    <3> QED BY <1>0, <2>9, <3>2, <3>3, DestroyShape
  <2> QED BY <1>4, <2>1, <2>2, <2>3, <2>4, <2>5, <2>6, <2>7, <2>8, <2>9 DEF Continue
<1>5. ASSUME NEW p \in Workers, Poll(p) PROVE WorkMoves(p)
  <2>1. PICK n \in InStatus("PROCESSING") : PollRow(p, n, "idle")
    BY <1>5 DEF Poll
  <2> QED BY <1>0, <1>1, <1>2, <2>1, PollShape
<1>6. ASSUME NEW p \in Workers, Start(p) PROVE WorkMoves(p)
  <2>1. CASE Keeps(p) /\ worker'[p].pc = "start" /\ worker'[p].made = (course = "absent")
    BY <2>1 DEF WorkMoves, Rests
  <2> QED BY <1>0, <1>1, <1>2, <1>6, <2>1, StartShape
<1>7. ASSUME NEW p \in Workers, Crash(p) \/ CheckActivation(p) PROVE WorkMoves(p)
  BY <1>0, <1>1, <1>7, SweepShape
<1>8. ASSUME NEW p \in Workers, Gather(p) PROVE WorkMoves(p)
  <2>1. /\ raced' = (raced \/ \E q \in Workers : worker[q].pc \in Starting \ {"start"})
        /\ cloud' = cloud
    BY <1>8 DEF Gather
  <2>2. ~raced' => \A q \in Workers : worker[q].pc \notin Starting \ {"start"}
    BY <2>1, Zenon
  <2>3. Gathers(p) /\ Keeps(p)
    BY <1>0, <1>8, <2>1, <2>2, DestroyShape DEF Gathers
  <2> QED BY <2>3 DEF WorkMoves
<1>9. ASSUME NEW p \in Workers, CheckPrune(p) PROVE WorkMoves(p)
  <2>1. PICK n \in InStatus("SUPERSEDED") :
          /\ Keeps(p) /\ worker'[p].pc = "prune" /\ worker'[p].of = n
          /\ worker'[p].made = FALSE
    BY <1>0, <1>9, SweepShape
  <2>2. pkg[n].job
    BY <1>0 DEF Rows
  <2> QED BY <2>1, <2>2 DEF WorkMoves, TakesUp
<1>10. CASE \/ Pin \/ UNCHANGED vars \/ (\E n \in Packages : Age(n) \/ CloudWork(n))
            \/ \E p \in Workers : Deactivate(p)
  BY <1>10 DEF Pin, vars, Age, CloudWork, Deactivate
<1> QED BY <1>4, <1>5, <1>6, <1>7, <1>8, <1>9, <1>10, Constants DEF Next

\* A row stays a row.
LEMMA RowType ==
  ASSUME TypeOK, NEW n \in Packages, Moves(n)
  PROVE  pkg'[n] \in Row
<1>1. pkg[n] \in Row
  BY DEF TypeOK
<1>2. NoRow \in Row
  BY DEF NoRow, Row, Statuses, HardCap
<1> USE DEF Row, Statuses
<1>3. CASE Stays(n)
  BY <1>1, <1>3 DEF Stays
<1>4. CASE Ages(n)
  <2>1. pkg[n].age + 1 \in 0 .. HardCap
    BY <1>1, <1>4 DEF Ages, HardCap
  <2> QED BY <1>1, <1>4, <2>1 DEF Ages
<1>5. CASE Fails(n) \/ GetsJob(n) \/ GetsTree(n)
  BY <1>1, <1>5 DEF Fails, GetsJob, GetsTree
<1>6. CASE GivesWay(n) \/ Succeeds(n) \/ IsPruned(n)
  BY <1>1, <1>6 DEF GivesWay, Succeeds, IsPruned
<1>7. CASE Goes(n) \/ Comes(n)
  BY <1>2, <1>7 DEF Goes, Comes
<1> QED BY <1>3, <1>4, <1>5, <1>6, <1>7 DEF Moves

\* Every worker stays one.
LEMMA WorkerType ==
  ASSUME IInv, [Next]_vars
  PROVE  worker' \in [Workers -> Worker]
<1> USE Constants DEF IInv
<1>0. worker \in [Workers -> Worker] /\ TypeOK
  BY DEF TypeOK
<1>1. ASSUME NEW p \in Workers, NEW w, worker' = [worker EXCEPT ![p] = w], worker'[p] \in Worker
      PROVE  worker' \in [Workers -> Worker]
  BY <1>0, <1>1
<1>2. ASSUME NEW p \in Workers, Keeps(p), worker'[p] \in Worker, \E w : Become(p, w)
      PROVE  worker' \in [Workers -> Worker]
  BY <1>1, <1>2 DEF Become
<1>3. CASE worker' = worker
  BY <1>0, <1>3
<1>4. ASSUME NEW p \in Workers, \E step : Goto(p, step) PROVE \E w : Become(p, w)
  BY <1>4 DEF Goto
<1>5. ASSUME NEW p \in Workers, Answer(p) PROVE \E w : Become(p, w)
  BY <1>5 DEF Answer
<1>6. ASSUME NEW p \in Workers, Continue(p) PROVE worker' \in [Workers -> Worker]
  <2>1. CASE AskCloud(p) \/ Prepare(p) \/ Build(p) \/ Publish(p) \/ MarkReady(p)
    <3>1. worker'[p] \in Worker /\ Keeps(p)
      BY <1>0, <2>1, PollingShape
    <3>2. (\E step : Goto(p, step)) \/ Answer(p) \/ \E w : Become(p, w)
      BY <2>1 DEF AskCloud, Prepare, Build, Publish, MarkReady
    <3> QED BY <1>2, <1>4, <1>5, <3>1, <3>2
  <2>2. CASE Finish(p)
    <3>1. worker'[p] \in Worker /\ Keeps(p)
      BY <1>0, <2>2, FinishShape DEF Rested, Turned
    <3>2. Answer(p) \/ \E w : Become(p, w)
      BY <2>2 DEF Finish
    <3> QED BY <1>2, <1>5, <3>1, <3>2
  <2>3. CASE StartTx(p)
    <3>1. worker'[p] \in Worker /\ Keeps(p)
      BY <1>0, <2>3, StartTxShape DEF Rested
    <3>2. \E w : Become(p, w)
      BY <2>3 DEF StartTx
    <3> QED BY <1>2, <3>1, <3>2
  <2>4. CASE \/ Upload(p) \/ Record(p) \/ Reject(p) \/ Late(p) \/ Cleanup(p)
             \/ UndoPackage(p) \/ UndoCourse(p)
    <3>1. worker'[p] \in Worker /\ Keeps(p)
      BY <1>0, <2>4, ImportShape
    <3>2. (\E step : Goto(p, step)) \/ \E w : Become(p, w)
      BY <2>4 DEF Upload, Record, Reject, Late, Cleanup, UndoPackage, UndoCourse
    <3> QED BY <1>2, <1>4, <3>1, <3>2
  <2>5. CASE Activate(p) \/ PruneCloud(p) \/ PruneMark(p) \/ Teardown(p)
    <3>1. worker'[p] \in Worker /\ Keeps(p)
      BY <1>0, <2>5, SweepShape
    <3>2. (\E step : Goto(p, step)) \/ \E w : Become(p, w)
      BY <2>5 DEF Activate, PruneCloud, PruneMark, Teardown
    <3> QED BY <1>2, <1>4, <3>1, <3>2
  <2>6. CASE Close(p) \/ PurgeCloud(p) \/ Settle(p)
    <3>1. worker'[p] \in Worker /\ Keeps(p)
      BY <1>0, <2>6, DestroyShape
    <3>2. (\E step : Goto(p, step)) \/ \E w : Become(p, w)
      BY <2>6 DEF Close, PurgeCloud, Settle
    <3> QED BY <1>2, <1>4, <3>1, <3>2
  <2> QED BY <1>6, <2>1, <2>2, <2>3, <2>4, <2>5, <2>6 DEF Continue
<1>7. ASSUME NEW p \in Workers, NEW n \in InStatus("PROCESSING"), NEW then, PollRow(p, n, then)
      PROVE  \E w : Become(p, w)
  BY <1>7 DEF PollRow
<1>8. ASSUME NEW p \in Workers, Poll(p) \/ Start(p) PROVE worker' \in [Workers -> Worker]
  <2>1. worker'[p] \in Worker /\ Keeps(p)
    <3>1. CASE Poll(p)
      <4>1. PICK n \in InStatus("PROCESSING") : PollRow(p, n, "idle")
        BY <3>1 DEF Poll
      <4> QED BY <1>0, <4>1, PollShape DEF Rested, Polled
    <3>2. CASE Start(p)
      BY <1>0, <3>2, StartShape DEF Rested, Polled
    <3> QED BY <1>8, <3>1, <3>2
  <2>2. \E w : Become(p, w)
    BY <1>7, <1>8 DEF Poll, Start, Unbuilt
  <2> QED BY <1>2, <2>1, <2>2
<1>9. ASSUME NEW p \in Workers, Crash(p) \/ CheckActivation(p) \/ CheckPrune(p) \/ Gather(p)
      PROVE  worker' \in [Workers -> Worker]
  <2>1. worker'[p] \in Worker /\ Keeps(p)
    <3>1. CASE Gather(p)
      BY <1>0, <3>1, DestroyShape
    <3>2. CASE Crash(p) \/ CheckActivation(p) \/ CheckPrune(p)
      BY <1>0, <3>2, SweepShape
    <3> QED BY <1>9, <3>1, <3>2
  <2>2. \E w : Become(p, w)
    BY <1>9 DEF Crash, CheckActivation, CheckPrune, Gather
  <2> QED BY <1>2, <2>1, <2>2
<1>10. CASE \/ Pin \/ UNCHANGED vars \/ (\E m \in Packages : Age(m) \/ CloudWork(m))
            \/ \E p \in Workers : Deactivate(p)
  BY <1>3, <1>10 DEF Pin, vars, Age, CloudWork, Deactivate
<1> QED BY <1>6, <1>8, <1>9, <1>10 DEF Next

\* The rows, and the courses on Cloud, stay functions of the packages.
LEMMA FunctionsStay ==
  ASSUME TypeOK, [Next]_vars
  PROVE  /\ pkg' = [n \in Packages |-> pkg'[n]]
         /\ cloud' = [n \in Packages |-> cloud'[n]]
<1> DEFINE P == pkg' = [n \in Packages |-> pkg'[n]]
           C == cloud' = [n \in Packages |-> cloud'[n]]
<1>0. /\ pkg \in [Packages -> Row] /\ cloud \in [Packages -> Clouds]
      /\ pkg' = pkg => P
      /\ cloud' = cloud => C
  BY DEF TypeOK
<1>1. ASSUME NEW n, NEW r
      PROVE  /\ pkg' = [pkg EXCEPT ![n] = r] => P
             /\ cloud' = [cloud EXCEPT ![n] = r] => C
  BY <1>0
<1>2. ASSUME NEW n, NEW s, pkg' = [pkg EXCEPT ![n].status = s] PROVE P
  BY <1>0, <1>2
<1>3. ASSUME NEW n, NEW s, NEW b, MarkIf(b, n, s) PROVE P
  BY <1>0, <1>2, <1>3 DEF MarkIf, Mark
<1>11. ASSUME NEW n, pkg' = [pkg EXCEPT ![n].job = TRUE] PROVE P
  BY <1>0, <1>11
<1>12. ASSUME NEW f, pkg' = [n \in Packages |-> f[n]] PROVE P
  BY <1>12
<1> HIDE DEF P, C
<1>4. ASSUME NEW p \in Workers, NEW n, NEW then, PollRow(p, n, then) PROVE P
  BY <1>0, <1>3, <1>4 DEF PollRow
<1>5. ASSUME NEW p \in Workers, Continue(p) PROVE P
  <2>1. CASE AskCloud(p) \/ Prepare(p) \/ MarkReady(p) \/ Finish(p) \/ Publish(p)
    BY <1>0, <1>3, <2>1 DEF AskCloud, Prepare, MarkReady, Finish, Publish
  <2>2. CASE Build(p)
    <3>1. pkg' = WithTree(worker[p].of) => P
      BY DEF P, WithTree
    <3> QED BY <1>0, <1>3, <2>2, <3>1 DEF Build
  <2>3. CASE StartTx(p)
    BY <1>0, <2>3 DEF StartTx, P
  <2>4. CASE Record(p)
    BY <1>0, <1>3, <1>11, <2>4 DEF Record
  <2>5. CASE Upload(p) \/ Reject(p) \/ Late(p) \/ Cleanup(p)
    BY <1>0, <1>3, <2>5 DEF Upload, Reject, Late, Cleanup
  <2>6. CASE UndoPackage(p)
    BY <1>0, <1>1, <2>6 DEF UndoPackage
  <2>7. CASE UndoCourse(p) \/ Teardown(p)
    BY <1>0, <2>7 DEF UndoCourse, Teardown, DeleteCourse, P
  <2>8. CASE Activate(p) \/ PruneCloud(p) \/ PruneMark(p) \/ Close(p) \/ PurgeCloud(p)
    BY <1>0, <1>3, <2>8 DEF Activate, PruneCloud, PruneMark, Close, PurgeCloud, courseVars
  <2>9. CASE Settle(p)
    BY <1>0, <2>9 DEF Settle, P
  <2> QED BY <1>5, <2>1, <2>2, <2>3, <2>4, <2>5, <2>6, <2>7, <2>8, <2>9 DEF Continue
<1>6. ASSUME NEW p \in Workers, Continue(p) PROVE C
  <2>1. CASE Upload(p)
    BY <1>0, <1>1, <2>1 DEF Upload
  <2>2. CASE Cleanup(p) \/ PruneCloud(p)
    BY <1>0, <1>1, <2>2 DEF Cleanup, PruneCloud
  <2>3. CASE PurgeCloud(p)
    <3>1. \/ cloud' = cloud
          \/ \E m, r : cloud' = [cloud EXCEPT ![m] = r]
      BY <2>3 DEF PurgeCloud
    <3> QED BY <1>0, <1>1, <3>1
  <2>4. CASE cloud' = cloud
    BY <1>0, <2>4
  <2> QED
    BY <1>6, <2>1, <2>2, <2>3, <2>4
    DEF Continue, AskCloud, Prepare, Build, Finish, Publish, MarkReady, StartTx, Record,
        Reject, Late, UndoPackage, UndoCourse, Activate, PruneMark, Close, Settle, Teardown
<1>7. ASSUME NEW p \in Workers,
             \/ Poll(p) \/ Crash(p) \/ Start(p) \/ CheckActivation(p) \/ Deactivate(p)
             \/ Gather(p) \/ CheckPrune(p)
      PROVE  P /\ C
  BY <1>0, <1>1, <1>4, <1>7
  DEF Poll, Crash, Start, CheckActivation, Deactivate, Gather, CheckPrune
<1>8. ASSUME NEW n \in Packages, Age(n) \/ CloudWork(n) PROVE P /\ C
  BY <1>0, <1>8 DEF Age, CloudWork, P, C
<1>9. ASSUME Pin \/ UNCHANGED vars PROVE P /\ C
  BY <1>0, <1>9 DEF Pin, vars
<1>10. P /\ C
  BY <1>5, <1>6, <1>7, <1>8, <1>9, Constants DEF Next
<1> QED BY <1>10 DEF P, C

\* A destruction puts a refused deletion on record, and takes it off once it succeeds.
LEMMA RefusedStep ==
  ASSUME TypeOK, [Next]_vars
  PROVE  \/ refused' = refused
         \/ \E m \in Packages : refused' = refused \cup {m}
         \/ \E m \in Packages :
              /\ cloud' = [cloud EXCEPT ![m] = IF @ \in OnCloud THEN "gone" ELSE @]
              /\ refused' = refused \ {m}
<1>1. ASSUME NEW p \in Workers, PurgeCloud(p)
      PROVE  \/ refused' = refused
             \/ \E m \in Packages : refused' = refused \cup {m}
             \/ \E m \in Packages :
                  /\ cloud' = [cloud EXCEPT ![m] = IF @ \in OnCloud THEN "gone" ELSE @]
                  /\ refused' = refused \ {m}
  <2>1. worker[p].todo \subseteq Packages
    BY DEF TypeOK, Worker
  <2> QED BY <1>1, <2>1 DEF PurgeCloud
<1>2. CASE \E p \in Workers :
             \/ AskCloud(p) \/ Prepare(p) \/ Build(p) \/ Finish(p) \/ Publish(p) \/ MarkReady(p)
             \/ StartTx(p) \/ Upload(p) \/ Record(p) \/ Reject(p) \/ Late(p) \/ Cleanup(p)
             \/ UndoPackage(p) \/ UndoCourse(p) \/ Activate(p)
             \/ PruneCloud(p) \/ PruneMark(p) \/ Close(p) \/ Settle(p) \/ Teardown(p)
  BY <1>2 DEF AskCloud, Prepare, Build, Finish, Publish, MarkReady, StartTx, Upload, Record,
              Reject, Late, Cleanup, UndoPackage, UndoCourse, Activate, PruneCloud, PruneMark,
              Close, Settle, Teardown
<1>3. CASE \E p \in Workers :
             \/ Poll(p) \/ Crash(p) \/ Start(p) \/ CheckActivation(p) \/ Deactivate(p) \/ Gather(p)
             \/ CheckPrune(p)
  BY <1>3 DEF Poll, Crash, Start, CheckActivation, Deactivate, Gather, CheckPrune
<1>4. CASE Pin \/ UNCHANGED vars \/ \E m \in Packages : Age(m) \/ CloudWork(m)
  BY <1>4 DEF Pin, vars, Age, CloudWork
<1>5. Admins \subseteq Workers /\ Cron \in Workers
  BY Constants
<1> QED BY <1>1, <1>2, <1>3, <1>4, <1>5 DEF Next, Continue

\* Every step keeps the types.
LEMMA TypeStep == IInv /\ [Next]_vars => TypeOK'
<1> SUFFICES ASSUME IInv, [Next]_vars PROVE TypeOK'
  OBVIOUS
<1>0. TypeOK
  BY DEF IInv
<1> USE Constants
<1>1. pkg' \in [Packages -> Row]
  <2>1. \A n \in Packages : pkg'[n] \in Row
    BY <1>0, MovesStep, RowType
  <2> QED BY <1>0, <2>1, FunctionsStay
<1>2. cloud' \in [Packages -> Clouds]
  <2>1. \A n \in Packages : cloud'[n] \in Clouds
    BY <1>0, CloudStep DEF CloudMoves, TypeOK, Clouds, OnCloud
  <2> QED BY <1>0, <2>1, FunctionsStay
<1>3. worker' \in [Workers -> Worker]
  BY WorkerType
<1>4. /\ course' \in {"absent", "present", "deleted"}
      /\ active' \in BOOLEAN /\ raced' \in BOOLEAN
      /\ {live', published', partial', pinned'} \subseteq Packages \cup {0}
  <2>0. /\ course \in {"absent", "present", "deleted"}
        /\ active \in BOOLEAN /\ raced \in BOOLEAN
        /\ {live, published, partial, pinned} \subseteq Packages \cup {0}
    BY <1>0 DEF TypeOK
  <2> DEFINE Plain == UNCHANGED <<courseVars, raced>>
  <2>1. CASE Plain
    BY <2>0, <2>1 DEF courseVars
  <2>2. ASSUME NEW p \in Workers, Continue(p)
        PROVE  /\ course' \in {"absent", "present", "deleted"}
               /\ active' \in BOOLEAN /\ raced' \in BOOLEAN
               /\ {live', published', partial', pinned'} \subseteq Packages \cup {0}
    <3>0. worker[p] \in Worker
      BY <1>0 DEF TypeOK
    <3>1. CASE \/ AskCloud(p) \/ Prepare(p) \/ Finish(p) \/ MarkReady(p) \/ Upload(p) \/ Record(p)
               \/ Reject(p) \/ Late(p) \/ Cleanup(p) \/ UndoPackage(p) \/ PruneCloud(p)
               \/ PruneMark(p) \/ PurgeCloud(p)
      BY <2>1, <3>1 DEF AskCloud, Prepare, Finish, MarkReady, Upload, Record, Reject, Late,
                        Cleanup, UndoPackage, PruneCloud, PruneMark, PurgeCloud
    <3>2. CASE Build(p)
      BY <2>0, <3>0, <3>2 DEF Build, Worker
    <3>3. CASE Publish(p)
      BY <2>0, <3>0, <3>3 DEF Publish, Worker
    <3>4. CASE StartTx(p)
      BY <2>0, <3>4 DEF StartTx
    <3>5. CASE UndoCourse(p) \/ Activate(p) \/ Close(p)
      BY <2>0, <3>5 DEF UndoCourse, DeleteCourse, Activate, Close
    <3>6. CASE Settle(p) \/ Teardown(p)
      BY <1>0, <2>0, <3>6, NewestIs DEF Settle, Teardown, DeleteCourse
    <3> QED BY <2>2, <3>1, <3>2, <3>3, <3>4, <3>5, <3>6 DEF Continue
  <2>3. ASSUME NEW p \in Workers, Start(p) \/ Deactivate(p) \/ Gather(p)
        PROVE  /\ course' \in {"absent", "present", "deleted"}
               /\ active' \in BOOLEAN /\ raced' \in BOOLEAN
               /\ {live', published', partial', pinned'} \subseteq Packages \cup {0}
    BY <2>0, <2>3 DEF Start, Deactivate, Gather, courseVars
  <2>4. ASSUME NEW p \in Workers, Poll(p) \/ Crash(p) \/ CheckActivation(p) \/ CheckPrune(p)
        PROVE  Plain
    BY <2>4 DEF Poll, Crash, CheckActivation, CheckPrune
  <2>5. CASE Pin
    BY <2>0, <2>5 DEF Pin
  <2>6. CASE UNCHANGED vars \/ \E n \in Packages : Age(n) \/ CloudWork(n)
    BY <2>1, <2>6 DEF vars, Age, CloudWork
  <2> HIDE DEF Plain
  <2> QED BY <2>1, <2>2, <2>3, <2>4, <2>5, <2>6 DEF Next
<1>5. refused' \subseteq Packages
  BY <1>0, RefusedStep DEF TypeOK
<1> QED BY <1>1, <1>2, <1>3, <1>4, <1>5 DEF TypeOK

-----------------------------------------------------------------------------
\* A row in flight was in flight before, unless it is the only one.
LEMMA FlightStep == IInv /\ [Next]_vars => OneInFlight'
<1> SUFFICES ASSUME IInv, [Next]_vars, NEW m \in Packages, NEW n \in Packages,
                    pkg'[m].status = "PROCESSING", pkg'[n].status = "PROCESSING"
             PROVE  m = n
  BY DEF OneInFlight
<1>1. pkg[m] \in Row /\ pkg[n] \in Row
  BY DEF IInv, TypeOK
<1>2. Moves(m) /\ Moves(n)
  BY MovesStep
<1>3. ASSUME NEW k \in Packages, Moves(k), pkg'[k].status = "PROCESSING", pkg[k] \in Row, ~Comes(k)
      PROVE  pkg[k].status = "PROCESSING"
  <2>1. ~Fails(k) /\ ~GivesWay(k) /\ ~Succeeds(k) /\ ~IsPruned(k) /\ ~Goes(k)
    BY <1>3 DEF Fails, GivesWay, Succeeds, IsPruned, Goes, Row, NoRow
  <2>2. Stays(k) \/ Ages(k) \/ GetsJob(k) \/ GetsTree(k)
    BY <1>3, <2>1 DEF Moves
  <2> QED BY <1>3, <2>2 DEF Stays, Ages, GetsJob, GetsTree, Row
<1>4. CASE Comes(m) \/ Comes(n)
  BY <1>4 DEF Comes
<1>5. CASE ~Comes(m) /\ ~Comes(n)
  BY <1>1, <1>2, <1>3, <1>5 DEF IInv, OneInFlight
<1> QED BY <1>4, <1>5

\* A row that fails with its tree built has its age.
LEMMA KeptStep == IInv /\ [Next]_vars => BuiltIsKept'
<1> SUFFICES ASSUME IInv, [Next]_vars, NEW n \in Packages,
                    pkg'[n].status = "FAILED", pkg'[n].tree
             PROVE  pkg'[n].age = HardCap
  BY DEF BuiltIsKept
<1>1. pkg[n] \in Row
  BY DEF IInv, TypeOK
<1>2. Moves(n)
  BY MovesStep
<1>3. pkg[n].status = "FAILED" /\ pkg[n].tree => pkg[n].age = HardCap
  BY DEF IInv, BuiltIsKept
<1>4. ~Ages(n) /\ ~GetsTree(n) /\ ~GivesWay(n) /\ ~Succeeds(n) /\ ~IsPruned(n) /\ ~Goes(n) /\ ~Comes(n)
  BY <1>1 DEF Ages, GetsTree, GivesWay, Succeeds, IsPruned, Goes, Comes, Row, NoRow
<1>5. CASE Stays(n) \/ GetsJob(n)
  BY <1>1, <1>3, <1>5 DEF Stays, GetsJob, Row
<1>6. CASE Fails(n)
  BY <1>1, <1>6 DEF Fails, Row
<1> QED BY <1>2, <1>4, <1>5, <1>6 DEF Moves

\* Rows that are gone leave nothing, and a tree stands on a job that completed.
LEMMA RowsStep == IInv /\ [Next]_vars => Rows'
<1> SUFFICES ASSUME IInv, [Next]_vars PROVE Rows'
  OBVIOUS
<1>0. TypeOK /\ Rows /\ NoJobYet /\ Owned
  BY DEF IInv
<1>1. ASSUME NEW n \in Packages
      PROVE  /\ ~(pkg'[n].status # "none") => pkg'[n] = NoRow
             /\ pkg'[n].status \in {"READY", "SUPERSEDED"} => pkg'[n].tree
             /\ pkg'[n].tree => pkg'[n].job /\ cloud'[n] \in {"complete", "gone"}
  <2>0. /\ pkg[n] \in Row
        /\ ~Exists(n) => pkg[n] = NoRow
        /\ pkg[n].status \in {"READY", "SUPERSEDED"} => pkg[n].tree
        /\ pkg[n].tree => pkg[n].job /\ cloud[n] \in {"complete", "gone"}
    BY <1>0 DEF TypeOK, Rows
  <2>1. Moves(n)
    BY MovesStep
  <2>2. pkg[n].job /\ cloud[n] \in {"complete", "gone"} => cloud'[n] \in {"complete", "gone"}
    <3>1. CloudMoves(n)
      BY CloudStep
    <3>2. pkg[n].job => ~\E p \in Workers : At(p, "upload") /\ worker[p].of = n
      BY <1>0 DEF NoJobYet, Owning, At
    <3> QED BY <3>1, <3>2 DEF CloudMoves
  <2>3. CASE Stays(n) \/ Ages(n)
    BY <2>0, <2>2, <2>3 DEF Stays, Ages, Row, NoRow
  <2>4. CASE Fails(n) \/ IsPruned(n)
    BY <2>0, <2>2, <2>4 DEF Fails, IsPruned, Row
  <2>5. CASE GetsJob(n)
    BY <2>0, <2>2, <2>5 DEF GetsJob, Row
  <2>6. CASE GetsTree(n)
    BY <2>0, <2>2, <2>6 DEF GetsTree, Row
  <2>7. CASE GivesWay(n) \/ Succeeds(n)
    BY <2>0, <2>2, <2>7 DEF GivesWay, Succeeds, Row
  <2>8. CASE Goes(n) \/ Comes(n)
    BY <2>8 DEF Goes, Comes, NoRow
  <2> QED BY <2>1, <2>3, <2>4, <2>5, <2>6, <2>7, <2>8 DEF Moves
<1>2. ASSUME course' # "present" PROVE \A n \in Packages : pkg'[n].status = "none"
  <2>1. course # "present" \/ \A n \in Packages : pkg'[n] = NoRow
    BY <1>2, CourseStep DEF CourseMoves, Wiped
  <2>2. CASE course # "present"
    <3>1. \A n \in Packages : ~Exists(n)
      BY <1>0, <2>2 DEF Rows
    <3> SUFFICES ASSUME NEW n \in Packages PROVE pkg'[n].status = "none"
      OBVIOUS
    <3>2. Moves(n)
      BY MovesStep
    <3>3. pkg[n].status = "none"
      BY <3>1
    <3> QED BY <2>2, <3>2, <3>3 DEF Moves, Stays, Ages, Fails, GetsJob, GetsTree, GivesWay, Succeeds,
                               IsPruned, Goes, Comes, NoRow
  <2> QED BY <2>1, <2>2 DEF NoRow
<1> QED BY <1>1, <1>2 DEF Rows

\* A row comes into flight as a new one.
LEMMA NotAgain ==
  ASSUME IInv, [Next]_vars, NEW n \in Packages, pkg'[n].status = "PROCESSING"
  PROVE  pkg[n].status = "PROCESSING" \/ Comes(n)
<1>1. pkg[n] \in Row /\ Moves(n)
  BY MovesStep DEF IInv, TypeOK
<1>2. ~Fails(n) /\ ~GivesWay(n) /\ ~Succeeds(n) /\ ~IsPruned(n) /\ ~Goes(n)
  BY <1>1 DEF Fails, GivesWay, Succeeds, IsPruned, Goes, Row, NoRow
<1>3. Stays(n) \/ Ages(n) \/ GetsJob(n) \/ GetsTree(n) \/ Comes(n)
  BY <1>1, <1>2 DEF Moves
<1> QED BY <1>1, <1>3 DEF Stays, Ages, GetsJob, GetsTree, Row

\* While the course is there, a job and a tree stay with their row.
LEMMA StaysBuilt ==
  ASSUME IInv, [Next]_vars, NEW n \in Packages, course' # "deleted"
  PROVE  (pkg[n].job => pkg'[n].job) /\ (pkg[n].tree => pkg'[n].tree)
<1>1. pkg[n] \in Row /\ Moves(n)
  BY MovesStep DEF IInv, TypeOK
<1>2. (pkg[n].tree => pkg[n].job) /\ (~Exists(n) => pkg[n] = NoRow)
  BY DEF IInv, Rows
<1>3. Goes(n) => ~pkg[n].job
  BY DEF Goes, IInv, NoJobYet, Owning, At
<1>4. Comes(n) => ~pkg[n].job
  BY <1>2 DEF Comes, NoRow
<1>5. CASE Stays(n) \/ Ages(n) \/ Fails(n) \/ GetsJob(n) \/ GetsTree(n)
  BY <1>1, <1>5 DEF Stays, Ages, Fails, GetsJob, GetsTree, Row
<1>6. CASE GivesWay(n) \/ Succeeds(n) \/ IsPruned(n)
  BY <1>1, <1>6 DEF GivesWay, Succeeds, IsPruned, Row
<1> QED BY <1>1, <1>2, <1>3, <1>4, <1>5, <1>6 DEF Moves

\* A worker that owns a row owned it before, or has just made it.
LEMMA OwnerBefore ==
  ASSUME IInv, [Next]_vars, NEW p \in Workers, worker'[p].pc \in Owning \cup {"cleanup"}
  PROVE  \/ Imports(p)
         \/ /\ worker[p].pc \in Owning \cup {"cleanup"} /\ worker'[p].of = worker[p].of
            /\ worker'[p].pc \in Owning => worker[p].pc \in Owning
<1>1. CASE worker'[p] = worker[p]
  BY <1>1
<1>2. CASE WorkMoves(p)
  <2>1. ~Rests(p) /\ ~TakesUp(p) /\ ~Gathers(p) /\ ~Purges(p) /\ ~PackageStep(p) /\ ~DestroyStep(p)
    BY DEF Rests, TakesUp, Gathers, Purges, PackageStep, DestroyStep, Turned, Owning
  <2>2. CASE ImportStep(p)
    BY <2>2 DEF ImportStep, Turned, Owning, At
  <2> QED BY <1>2, <2>1, <2>2 DEF WorkMoves
<1> QED BY <1>1, <1>2, WorkStep DEF WorkMoves, Keeps

\* One worker enters an import at a time.
LEMMA OneImports ==
  ASSUME IInv, [Next]_vars, NEW p \in Workers, NEW q \in Workers, Imports(p), Imports(q)
  PROVE  p = q
<1>1. worker'[p] # worker[p] /\ worker'[q] # worker[q]
  BY DEF Imports, At
<1> QED BY <1>1, WorkStep DEF WorkMoves, Keeps

\* A row that is owned stays until its owner takes it back or the course is deleted.
LEMMA OwnedStep == IInv /\ [Next]_vars => Owned'
<1> DEFINE Owner == Owning \cup {"cleanup"}
<1> SUFFICES ASSUME IInv, [Next]_vars, NEW p \in Workers, worker'[p].pc \in Owner
             PROVE  /\ worker'[p].of \in Packages
                    /\ course' # "deleted" => pkg'[worker'[p].of].status # "none"
                    /\ \A q \in Workers \ {p} :
                         worker'[q].pc \in Owner => worker'[q].of # worker'[p].of
  BY DEF Owned
<1>0. Owned /\ Rows
  BY DEF IInv
<1>1. ASSUME NEW q \in Workers, worker'[q].pc \in Owner, ~Imports(q)
      PROVE  /\ worker[q].pc \in Owner /\ worker'[q].of = worker[q].of
             /\ worker[q].of \in Packages
             /\ course # "deleted" => Exists(worker[q].of)
  BY <1>0, <1>1, OwnerBefore DEF Owned
<1>2. ASSUME NEW q \in Workers, Imports(q)
      PROVE  /\ worker'[q].of \in Packages /\ ~Exists(worker'[q].of) /\ course = "present"
             /\ pkg'[worker'[q].of].status = "PROCESSING"
  BY <1>2 DEF Imports, NoRow
<1>3. worker'[p].of \in Packages
  BY <1>1, <1>2
<1>4. ASSUME course' # "deleted" PROVE pkg'[worker'[p].of].status # "none"
  <2>1. CASE Imports(p)
    BY <1>2, <2>1
  <2>2. CASE ~Imports(p)
    <3>1. PICK n \in Packages : n = worker[p].of /\ n = worker'[p].of
      BY <1>1, <2>2
    <3>2. worker[p].pc \in Owner
      BY <1>1, <2>2
    <3>3. course # "deleted"
      BY <1>4, CourseStep DEF CourseMoves
    <3>4. Exists(n) /\ pkg[n] \in Row /\ Moves(n)
      BY <1>1, <2>2, <3>1, <3>3, MovesStep DEF IInv, TypeOK
    <3>5. ~Goes(n)
      <4> SUFFICES ASSUME NEW q \in Workers, At(q, "undo"), worker[q].of = n, Turned(q, "undoCourse")
                   PROVE  FALSE
        BY <1>4 DEF Goes
      <4>1. p = q
        BY <1>0, <3>1, <3>2 DEF Owned, At, Owning
      <4> QED BY <4>1 DEF Turned, Owning
    <3>6. CASE Stays(n) \/ Ages(n) \/ Fails(n) \/ GetsJob(n) \/ GetsTree(n)
      BY <3>1, <3>4, <3>6 DEF Stays, Ages, Fails, GetsJob, GetsTree, Row
    <3>7. CASE GivesWay(n) \/ Succeeds(n) \/ IsPruned(n) \/ Comes(n)
      BY <3>1, <3>4, <3>7 DEF GivesWay, Succeeds, IsPruned, Comes, Row, NoRow
    <3> QED BY <3>4, <3>5, <3>6, <3>7 DEF Moves
  <2> QED BY <2>1, <2>2
<1>5. ASSUME NEW q \in Workers \ {p}, worker'[q].pc \in Owner PROVE worker'[q].of # worker'[p].of
  <2>1. CASE ~Imports(p) /\ ~Imports(q)
    BY <1>0, <1>1, <1>5, <2>1 DEF Owned
  <2>2. CASE Imports(p) /\ ~Imports(q)
    BY <1>1, <1>2, <1>5, <2>2
  <2>3. CASE ~Imports(p) /\ Imports(q)
    BY <1>1, <1>2, <1>5, <2>3
  <2>4. CASE Imports(p) /\ Imports(q)
    BY <1>5, <2>4, OneImports
  <2> QED BY <2>1, <2>2, <2>3, <2>4
<1> QED BY <1>3, <1>4, <1>5

\* A row that is owned gets its job when its owner is done with it.
LEMMA NoJobStep == IInv /\ [Next]_vars => NoJobYet'
<1> SUFFICES ASSUME IInv, [Next]_vars, NEW p \in Workers, worker'[p].pc \in Owning
             PROVE  ~pkg'[worker'[p].of].job
  BY DEF NoJobYet
<1>0. Owned /\ NoJobYet /\ Rows
  BY DEF IInv
<1>1. CASE Imports(p)
  BY <1>1 DEF Imports, NoRow
<1>2. CASE ~Imports(p)
  <2>1. PICK n \in Packages : n = worker[p].of /\ n = worker'[p].of /\ worker[p].pc \in Owning
    BY <1>0, <1>2, OwnerBefore DEF Owned
  <2>2. pkg[n] \in Row /\ Moves(n) /\ ~pkg[n].job /\ ~pkg[n].tree
    BY <1>0, <2>1, MovesStep DEF IInv, TypeOK, NoJobYet, Rows
  <2>3. ~GetsJob(n)
    <3> SUFFICES ASSUME NEW q \in Workers, At(q, "record"), worker[q].of = n, Rested(q) PROVE FALSE
      BY DEF GetsJob
    <3>1. p = q
      BY <1>0, <2>1 DEF Owned, At, Owning
    <3> QED BY <3>1 DEF Rested, Owning
  <2>4. CASE Stays(n) \/ Ages(n) \/ Fails(n) \/ GetsTree(n)
    BY <2>1, <2>2, <2>4 DEF Stays, Ages, Fails, GetsTree, Row
  <2>5. CASE GivesWay(n) \/ Succeeds(n) \/ IsPruned(n)
    BY <2>1, <2>2, <2>5 DEF GivesWay, Succeeds, IsPruned, Row
  <2>6. CASE Goes(n) \/ Comes(n)
    BY <2>1, <2>6 DEF Goes, Comes, NoRow
  <2> QED BY <2>2, <2>3, <2>4, <2>5, <2>6 DEF Moves
<1> QED BY <1>1, <1>2

\* Nobody uploads a package that has a job.
LEMMA NotUploaded ==
  ASSUME IInv, [Next]_vars, NEW n \in Packages, pkg[n].job,
         NEW q \in Workers, worker'[q].pc = "upload"
  PROVE  worker'[q].of # n
<1>1. CASE Imports(q)
  BY <1>1 DEF Imports, IInv, Rows, NoRow
<1>2. CASE ~Imports(q)
  BY <1>2, OwnerBefore DEF IInv, NoJobYet, Owning
<1> QED BY <1>1, <1>2

\* Nothing happens to a course that does not exist before an import creates it.
LEMMA FreshStep == IInv /\ [Next]_vars => Fresh'
<1> SUFFICES ASSUME IInv, [Next]_vars, course' = "absent"
             PROVE  /\ \A n \in Packages : cloud'[n] = "none"
                    /\ \A p \in Workers : worker'[p].pc = "idle"
  BY DEF Fresh, At
<1>1. /\ course = "absent" /\ Rows /\ \A n \in Packages : ~Exists(n)
      /\ \A n \in Packages : cloud[n] = "none"
      /\ \A p \in Workers : worker[p].pc = "idle"
  BY CourseStep DEF CourseMoves, IInv, Fresh, Rows, At
<1>2. InStatus("PROCESSING") = {} /\ InStatus("SUPERSEDED") = {}
  BY <1>1
<1>3. ASSUME NEW p \in Workers, Continue(p) PROVE FALSE
  <2>1. CASE \/ AskCloud(p) \/ Prepare(p) \/ Build(p) \/ Finish(p) \/ Publish(p) \/ MarkReady(p)
             \/ StartTx(p) \/ Upload(p) \/ Record(p) \/ Reject(p) \/ Late(p) \/ Cleanup(p)
    BY <1>1, <2>1 DEF AskCloud, Prepare, Build, Finish, Publish, MarkReady, StartTx, Upload, Record,
                      Reject, Late, Cleanup, At
  <2>2. CASE \/ UndoPackage(p) \/ UndoCourse(p) \/ Activate(p) \/ PruneCloud(p) \/ PruneMark(p)
             \/ Close(p) \/ PurgeCloud(p) \/ Settle(p) \/ Teardown(p)
    BY <1>1, <2>2 DEF UndoPackage, UndoCourse, Activate, PruneCloud, PruneMark, Close, PurgeCloud,
                      Settle, Teardown, At
  <2> QED BY <1>3, <2>1, <2>2 DEF Continue
<1>4. ASSUME NEW p \in Workers,
             Poll(p) \/ Crash(p) \/ Start(p) \/ CheckActivation(p) \/ Gather(p) \/ CheckPrune(p)
      PROVE  FALSE
  BY <1>1, <1>2, <1>4 DEF Poll, Crash, Start, CheckActivation, Gather, CheckPrune, At
<1>5. ASSUME NEW n \in Packages PROVE ~Age(n) /\ ~CloudWork(n)
  BY <1>1 DEF Age, CloudWork
<1>6. CASE Pin \/ UNCHANGED vars \/ \E p \in Workers : Deactivate(p)
  BY <1>1, <1>6 DEF Pin, vars, Deactivate
<1> QED BY <1>3, <1>4, <1>5, <1>6, Constants DEF Next

\* A worker on a package that has a job, or will not work on it again.
LEMMA HandlerBefore ==
  ASSUME IInv, [Next]_vars, NEW p \in Workers, worker'[p].pc \in Handling
  PROVE  \/ worker[p].pc \in Handling /\ worker'[p].of = worker[p].of
         \/ worker'[p].of \in Packages /\ pkg[worker'[p].of].job /\ course = "present"
            /\ worker'[p].pc \in {"ask", "finish", "prune"}
<1>1. CASE worker'[p] = worker[p]
  BY <1>1
<1>2. CASE WorkMoves(p)
  <2>1. ~Rests(p) /\ ~Imports(p) /\ ~Gathers(p) /\ ~Purges(p) /\ ~ImportStep(p) /\ ~DestroyStep(p)
    BY DEF Rests, Imports, Gathers, Purges, ImportStep, DestroyStep, Turned, Handling, Polling
  <2>2. CASE PackageStep(p)
    BY <2>2 DEF PackageStep, Turned, Handling, Polling, At
  <2>3. CASE TakesUp(p)
    <3>1. PICK n \in Packages : /\ worker'[p].of = n /\ pkg[n].job
                               /\ worker'[p].pc \in {"ask", "finish", "prune"}
      BY <2>3 DEF TakesUp
    <3>2. course = "present"
      BY <3>1 DEF IInv, Rows, NoRow
    <3> QED BY <3>1, <3>2
  <2> QED BY <1>2, <2>1, <2>2, <2>3 DEF WorkMoves
<1> QED BY <1>1, <1>2, WorkStep DEF WorkMoves, Keeps

\* A package that is worked on keeps its job, and its Cloud course is not uploaded again.
LEMMA HandledStep == IInv /\ [Next]_vars => Handled'
<1> SUFFICES ASSUME IInv, [Next]_vars, NEW p \in Workers, worker'[p].pc \in Handling
             PROVE  /\ worker'[p].of \in Packages
                    /\ course' # "deleted" => pkg'[worker'[p].of].job
                    /\ \A q \in Workers :
                         worker'[q].pc = "upload" => worker'[q].of # worker'[p].of
                    /\ worker'[p].pc \in {"prepare", "build"}
                         => cloud'[worker'[p].of] \in {"complete", "gone"}
                    /\ worker'[p].pc = "pruned" => cloud'[worker'[p].of] = "gone"
  BY DEF Handled, At
<1>0. Handled /\ Rows /\ TypeOK
  BY DEF IInv
<1>1. CASE /\ worker'[p].of \in Packages /\ pkg[worker'[p].of].job /\ course = "present"
           /\ worker'[p].pc \in {"ask", "finish", "prune"}
  <2> PICK n \in Packages : n = worker'[p].of
    BY <1>1
  <2> QED BY <1>1, StaysBuilt, NotUploaded
<1>2. CASE worker[p].pc \in Handling /\ worker'[p].of = worker[p].of
  <2>1. PICK n \in Packages : n = worker'[p].of /\ n = worker[p].of
    BY <1>0, <1>2 DEF Handled
  <2>2. course' # "deleted" => pkg[n].job /\ pkg'[n].job
    BY <1>0, <1>2, <2>1, StaysBuilt, CourseStep DEF Handled, CourseMoves
  <2>3. ASSUME NEW q \in Workers, worker'[q].pc = "upload" PROVE worker'[q].of # n
    <3>1. CASE Imports(q)
      <4>1. course = "present" /\ course' = "present"
        BY <3>1 DEF Imports
      <4> QED BY <2>2, <2>3, <4>1, NotUploaded
    <3>2. CASE ~Imports(q)
      <4>1. \/ worker'[q] = worker[q]
            \/ WorkMoves(q)
        BY WorkStep DEF WorkMoves, Keeps
      <4>2. ~WorkMoves(q)
        BY <2>3, <3>2 DEF WorkMoves, Rests, TakesUp, Gathers, Purges, PackageStep, ImportStep,
                          DestroyStep, Turned
      <4>3. worker[q].pc = "upload" /\ worker'[q].of = worker[q].of
        BY <2>3, <4>1, <4>2
      <4> QED BY <1>0, <1>2, <2>1, <4>3 DEF Handled, At
    <3> QED BY <3>1, <3>2
  <2>4. /\ cloud[n] \in {"complete", "gone"} => cloud'[n] \in {"complete", "gone"}
        /\ cloud[n] = "gone" => cloud'[n] = "gone"
    <3>1. CloudMoves(n)
      BY CloudStep
    <3>2. ~\E q \in Workers : At(q, "upload") /\ worker[q].of = n
      BY <1>0, <1>2, <2>1 DEF Handled
    <3> QED BY <3>1, <3>2 DEF CloudMoves, OnCloud
  <2>5. /\ worker'[p].pc \in {"prepare", "build"} => cloud'[n] \in {"complete", "gone"}
        /\ worker'[p].pc = "pruned" => cloud'[n] = "gone"
    <3>1. CASE worker'[p] = worker[p]
      BY <1>0, <1>2, <2>1, <2>4, <3>1 DEF Handled, At
    <3>2. CASE PackageStep(p)
      BY <1>0, <1>2, <2>1, <2>4, <3>2 DEF Handled, PackageStep, Turned, At
    <3>3. CASE Rests(p) \/ TakesUp(p) \/ Imports(p) \/ Gathers(p) \/ Purges(p) \/ ImportStep(p) \/ DestroyStep(p)
      BY <3>3 DEF Rests, TakesUp, Imports, Gathers, Purges, ImportStep, DestroyStep, Turned
    <3> QED BY <3>1, <3>2, <3>3, WorkStep DEF WorkMoves, Keeps
  <2> QED BY <2>1, <2>2, <2>3, <2>5
<1> QED BY <1>1, <1>2, HandlerBefore

\* What is about to be published keeps its tree.
LEMMA BuiltStep == IInv /\ [Next]_vars => Built'
<1> SUFFICES ASSUME IInv, [Next]_vars, NEW p \in Workers,
                    worker'[p].pc \in {"finish", "publish", "ready"}, course' # "deleted"
             PROVE  pkg'[worker'[p].of].tree
  BY DEF Built
<1>0. Handled /\ Built /\ course # "deleted"
  BY CourseStep DEF IInv, CourseMoves
<1>1. ASSUME worker[p].pc \in {"finish", "publish", "ready"}, worker'[p].of = worker[p].of
      PROVE  pkg'[worker'[p].of].tree
  <2>1. PICK n \in Packages : n = worker[p].of
    BY <1>0, <1>1 DEF Handled, Handling, Polling
  <2> QED BY <1>0, <1>1, <2>1, StaysBuilt DEF Built
<1>2. CASE worker'[p] = worker[p]
  BY <1>1, <1>2
<1>3. CASE PackageStep(p)
  BY <1>1, <1>3 DEF PackageStep, Turned, At
<1>4. CASE TakesUp(p)
  <2>1. PICK n \in Packages : n = worker'[p].of /\ pkg[n].tree
    BY <1>4 DEF TakesUp
  <2> QED BY <2>1, StaysBuilt
<1>5. CASE Rests(p) \/ Imports(p) \/ Gathers(p) \/ Purges(p) \/ ImportStep(p) \/ DestroyStep(p)
  BY <1>5 DEF Rests, Imports, Gathers, Purges, ImportStep, DestroyStep, Turned
<1> QED BY <1>2, <1>3, <1>4, <1>5, WorkStep DEF WorkMoves, Keeps

\* A worker that is publishing, or has published, did so before or is the one that
\* goes on now.
LEMMA PublisherBefore ==
  ASSUME IInv, [Next]_vars, NEW p \in Workers, worker'[p].pc \in {"publish", "ready"}
  PROVE  \/ worker'[p] = worker[p]
         \/ /\ Keeps(p) /\ worker'[p].of = worker[p].of
            /\ \/ /\ worker'[p].pc = "publish" /\ At(p, "finish") /\ worker'[p].tree = live
                  /\ pkg[worker[p].of].status = "PROCESSING" /\ pkg' = pkg
                  /\ \A q \in Workers : ~At(q, "publish")
               \/ /\ worker'[p].pc = "ready" /\ At(p, "publish")
                  /\ published' = worker[p].tree
<1>1. CASE WorkMoves(p)
  <2>1. ~Rests(p) /\ ~TakesUp(p) /\ ~Imports(p) /\ ~Gathers(p) /\ ~Purges(p) /\ ~ImportStep(p)
        /\ ~DestroyStep(p)
    BY DEF Rests, TakesUp, Imports, Gathers, Purges, ImportStep, DestroyStep, Turned
  <2> QED BY <1>1, <2>1 DEF WorkMoves, PackageStep, Turned
<1> QED BY <1>1, WorkStep DEF WorkMoves, Keeps

\* The tree in flight is the live one.
LEMMA LiveStep == IInv /\ [Next]_vars => BuiltIsLive'
<1> SUFFICES ASSUME IInv, [Next]_vars, NEW n \in Packages,
                    pkg'[n].status = "PROCESSING", pkg'[n].tree
             PROVE  live' = n
  BY DEF BuiltIsLive
<1>0. pkg[n] \in Row /\ Rows /\ NoJobYet /\ BuiltIsLive /\ OneInFlight /\ Moves(n)
  BY MovesStep DEF IInv, TypeOK
<1>1. ~Comes(n) /\ ~Wiped
  BY DEF Comes, Wiped, NoRow
<1>2. pkg[n].status = "PROCESSING"
  BY <1>1, NotAgain
<1>3. CASE GetsTree(n)
  BY <1>3 DEF GetsTree
<1>4. CASE ~GetsTree(n)
  <2>1. ~GetsJob(n) \/ pkg[n].tree
    BY <1>0 DEF GetsJob, Row
  <2>2. pkg[n].tree
    BY <1>0, <1>1, <1>2, <1>4, <2>1
    DEF Moves, Stays, Ages, Fails, GivesWay, Succeeds, IsPruned, Goes, Row, NoRow
  <2>3. live = n
    BY <1>0, <1>2, <2>2 DEF BuiltIsLive
  <2>4. ASSUME NEW m \in Packages, GetsTree(m) PROVE m = n
    BY <1>0, <1>2, <2>4 DEF GetsTree, OneInFlight
  <2> QED BY <1>1, <1>4, <2>3, <2>4, CourseStep DEF LiveMoves
<1> QED BY <1>3, <1>4

\* The publish has the course's lock.
LEMMA PublisherStep == IInv /\ [Next]_vars => OnePublisher'
<1> SUFFICES ASSUME IInv, [Next]_vars, NEW p \in Workers, NEW q \in Workers,
                    worker'[p].pc = "publish", worker'[q].pc = "publish"
             PROVE  p = q
  BY DEF OnePublisher, At
<1>1. At(p, "publish") /\ At(q, "publish") => p = q
  BY DEF IInv, OnePublisher
<1>2. CASE worker'[p] = worker[p]
  BY <1>1, <1>2, PublisherBefore DEF At, Keeps
<1>3. CASE worker'[p] # worker[p]
  BY <1>3, PublisherBefore DEF At, Keeps
<1> QED BY <1>2, <1>3

\* What is published is the tree of the package.
LEMMA OwnTreeStep == IInv /\ [Next]_vars => PublishesOwn'
<1> SUFFICES ASSUME IInv, [Next]_vars, NEW p \in Workers, worker'[p].pc = "publish"
             PROVE  worker'[p].tree = worker'[p].of
  BY DEF PublishesOwn, At
<1>1. CASE worker'[p] = worker[p]
  BY <1>1 DEF IInv, PublishesOwn, At
<1>2. CASE worker'[p] # worker[p]
  <2>1. /\ At(p, "finish") /\ worker'[p].of = worker[p].of /\ worker'[p].tree = live
        /\ pkg[worker[p].of].status = "PROCESSING"
    BY <1>2, PublisherBefore
  <2>2. PICK n \in Packages : n = worker[p].of
    BY <2>1 DEF IInv, Handled, Handling, Polling, At
  <2>3. course = "present"
    BY <2>1, <2>2 DEF IInv, Rows
  <2>4. pkg[n].tree
    BY <2>1, <2>2, <2>3 DEF IInv, Built, At
  <2> QED BY <2>1, <2>2, <2>4 DEF IInv, BuiltIsLive
<1> QED BY <1>1, <1>2

\* What a worker has published, or is about to, has been built.
LEMMA PublishedRow ==
  ASSUME IInv, [Next]_vars, NEW p \in Workers, worker[p].pc \in {"finish", "publish", "ready"},
         pkg'[worker[p].of].status = "PROCESSING"
  PROVE  pkg[worker[p].of].status = "PROCESSING"
<1>1. PICK n \in Packages : n = worker[p].of
  BY DEF IInv, Handled, Handling, Polling
<1>2. ~Comes(n)
  BY <1>1 DEF Comes, IInv, Built, Rows, NoRow
<1> QED BY <1>1, <1>2, NotAgain

\* Nobody publishes behind a package that has been published.
LEMMA NoneBehindStep == IInv /\ [Next]_vars => NoneBehind'
<1> SUFFICES ASSUME IInv, [Next]_vars PROVE NoneBehind'
  OBVIOUS
<1>0. /\ TypeOK /\ NoneBehind /\ OnePublisher /\ PublishesOwn /\ OneInFlight /\ BuiltIsLive
      /\ ReadyIsLive /\ Handled /\ Built /\ Rows
  BY DEF IInv
<1>1. ASSUME NEW p \in Workers, NEW q \in Workers, worker'[p].pc = "ready",
             worker'[q].pc = "publish", worker'[p].of # worker'[q].of,
             pkg'[worker'[p].of].status = "PROCESSING"
      PROVE  FALSE
  <2>1. p # q
    BY <1>1
  <2>2. worker'[p].of = worker[p].of /\ worker'[q].of = worker[q].of
    BY <1>1, PublisherBefore
  <2>3. worker[p].pc \in {"publish", "ready"}
    BY <1>1, PublisherBefore DEF At
  <2>4. PICK m \in Packages : m = worker[p].of
    BY <1>0, <2>3 DEF Handled, Handling, Polling
  <2>5. pkg[m].status = "PROCESSING"
    BY <1>1, <2>2, <2>3, <2>4, PublishedRow
  <2>6. CASE worker'[p] # worker[p]
    <3>1. At(p, "publish") /\ worker'[q] = worker[q]
      BY <1>1, <2>1, <2>6, PublisherBefore DEF Keeps
    <3> QED BY <1>0, <1>1, <2>1, <3>1 DEF OnePublisher, At
  <2>7. CASE worker'[p] = worker[p] /\ worker'[q] = worker[q]
    BY <1>0, <1>1, <2>4, <2>5, <2>7 DEF NoneBehind, At
  <2>8. CASE worker'[q] # worker[q]
    <3>1. At(q, "finish") /\ pkg[worker[q].of].status = "PROCESSING"
      BY <1>1, <2>8, PublisherBefore
    <3>2. PICK k \in Packages : k = worker[q].of
      BY <1>0, <3>1 DEF Handled, Handling, Polling, At
    <3> QED BY <1>0, <1>1, <2>2, <2>4, <2>5, <3>1, <3>2 DEF OneInFlight
  <2> QED BY <2>6, <2>7, <2>8
<1>2. ASSUME NEW n \in Packages, NEW q \in Workers, pkg'[n].status = "READY",
             worker'[q].pc = "publish"
      PROVE  worker'[q].of = n
  <2>1. pkg[n] \in Row /\ Moves(n)
    BY <1>0, MovesStep DEF TypeOK
  <2>2. CASE worker'[q] # worker[q]
    <3>1. /\ At(q, "finish") /\ pkg[worker[q].of].status = "PROCESSING" /\ pkg' = pkg
          /\ worker'[q].of = worker[q].of
      BY <1>2, <2>2, PublisherBefore
    <3>2. PICK k \in Packages : k = worker[q].of
      BY <1>0, <3>1 DEF Handled, Handling, Polling, At
    <3>3. course = "present"
      BY <1>0, <3>1, <3>2 DEF Rows
    <3>4. pkg[k].tree
      BY <1>0, <3>1, <3>2, <3>3 DEF Built, At
    <3>5. live = k /\ live = n
      BY <1>0, <1>2, <3>1, <3>2, <3>4 DEF BuiltIsLive, ReadyIsLive
    <3> QED BY <3>1, <3>2, <3>5
  <2>3. CASE worker'[q] = worker[q] /\ pkg[n].status = "READY"
    BY <1>0, <1>2, <2>3 DEF NoneBehind, At
  <2>4. CASE worker'[q] = worker[q] /\ pkg[n].status # "READY"
    <3>1. Succeeds(n)
      BY <1>2, <2>1, <2>4
      DEF Moves, Stays, Ages, Fails, GetsJob, GetsTree, GivesWay, IsPruned, Goes, Comes, Row, NoRow
    <3> QED BY <1>2, <2>4, <3>1 DEF Succeeds, At
  <2> QED BY <2>2, <2>3, <2>4
<1>3. ASSUME NEW p \in Workers, worker'[p].pc = "ready", pkg'[worker'[p].of].status = "PROCESSING"
      PROVE  published' = worker'[p].of
  <2>1. worker'[p].of = worker[p].of /\ worker[p].pc \in {"publish", "ready"}
    BY <1>3, PublisherBefore DEF At
  <2>2. PICK m \in Packages : m = worker[p].of
    BY <1>0, <2>1 DEF Handled, Handling, Polling
  <2>3. pkg[m].status = "PROCESSING"
    BY <1>3, <2>1, <2>2, PublishedRow
  <2>4. CASE worker'[p] # worker[p]
    <3>1. At(p, "publish") /\ published' = worker[p].tree
      BY <1>3, <2>4, PublisherBefore
    <3> QED BY <1>0, <2>1, <3>1 DEF PublishesOwn
  <2>5. CASE worker'[p] = worker[p]
    <3>1. published = m
      BY <1>0, <1>3, <2>2, <2>3, <2>5 DEF NoneBehind, At
    <3>2. ~Wiped
      BY <1>3, <2>1, <2>2 DEF Wiped, NoRow
    <3>3. ASSUME NEW q \in Workers, At(q, "publish"), published' = worker[q].tree
          PROVE  published' = m
      <4>1. worker[q].of = m
        BY <1>0, <1>3, <2>2, <2>3, <2>5, <3>3 DEF NoneBehind, At
      <4> QED BY <1>0, <3>3, <4>1 DEF PublishesOwn
    <3> QED BY <2>1, <2>2, <3>1, <3>2, <3>3, CourseStep DEF PublishedMoves
  <2> QED BY <2>4, <2>5
<1> QED BY <1>1, <1>2, <1>3 DEF NoneBehind, At

\* A package that is READY stays live and published until it gives way.
LEMMA ReadyStep == IInv /\ [Next]_vars => ReadyIsLive'
<1> SUFFICES ASSUME IInv, [Next]_vars, NEW n \in Packages, pkg'[n].status = "READY"
             PROVE  pkg'[n].tree /\ live' = n /\ published' = n
  BY DEF ReadyIsLive
<1>0. /\ pkg[n] \in Row /\ Moves(n) /\ Rows /\ NoJobYet /\ BuiltIsLive /\ NoneBehind
      /\ PublishesOwn /\ ReadyIsLive
  BY MovesStep DEF IInv, TypeOK
<1>1. pkg'[n].tree
  BY RowsStep DEF Rows
<1>2. CASE Succeeds(n)
  BY <1>0, <1>1, <1>2 DEF Succeeds, BuiltIsLive
<1>3. CASE ~Succeeds(n)
  <2>1. pkg[n].status = "READY"
    BY <1>0, <1>3
    DEF Moves, Stays, Ages, Fails, GetsJob, GetsTree, GivesWay, IsPruned, Goes, Comes, Row, NoRow
  <2>2. live = n /\ published = n
    BY <1>0, <2>1 DEF ReadyIsLive
  <2>3. ~Wiped
    BY DEF Wiped, NoRow
  <2>4. ASSUME NEW m \in Packages, GetsTree(m), pkg' = WithTree(m) PROVE FALSE
    <3> DEFINE ready == InStatus("READY") \ {m}
    <3>1. m # n
      BY <2>1, <2>4 DEF GetsTree
    <3>2. \A k \in ready : k = n
      BY <1>0, <2>2 DEF ReadyIsLive
    <3>3. n \in ready /\ n <= n
      BY <2>1, <3>1, Constants
    <3>4. n \in ready /\ \A k \in ready : k <= n
      BY <3>2, <3>3
    <3>5. pkg'[n] = [pkg[n] EXCEPT !.status = "SUPERSEDED"]
      BY <2>4, <3>1, <3>4 DEF WithTree
    <3> QED BY <1>0, <3>5 DEF Row
  <2>5. live' = n
    BY <2>2, <2>3, <2>4, CourseStep DEF LiveMoves
  <2>6. ASSUME NEW q \in Workers, At(q, "publish"), published' = worker[q].tree
        PROVE  published' = n
    BY <1>0, <2>1, <2>6 DEF NoneBehind, PublishesOwn
  <2>7. published' = n
    BY <2>2, <2>3, <2>6, CourseStep DEF PublishedMoves
  <2> QED BY <1>1, <2>5, <2>7
<1> QED BY <1>2, <1>3

-----------------------------------------------------------------------------
\* A worker that uploads did so before, or enters its import.
LEMMA UploaderBefore ==
  ASSUME IInv, [Next]_vars, NEW q \in Workers, worker'[q].pc = "upload"
  PROVE  Imports(q) \/ worker'[q] = worker[q]
<1>1. CASE WorkMoves(q)
  <2>1. ~Rests(q) /\ ~TakesUp(q) /\ ~Gathers(q) /\ ~Purges(q) /\ ~PackageStep(q) /\ ~ImportStep(q)
        /\ ~DestroyStep(q)
    BY DEF Rests, TakesUp, Gathers, Purges, PackageStep, ImportStep, DestroyStep, Turned
  <2> QED BY <1>1, <2>1 DEF WorkMoves
<1> QED BY <1>1, WorkStep DEF WorkMoves, Keeps

\* A worker in the middle of an import was there before, or enters it.
LEMMA StarterBefore ==
  ASSUME IInv, [Next]_vars, NEW q \in Workers, worker'[q].pc \in Starting \ {"start"}
  PROVE  Imports(q) \/ worker[q].pc \in Starting \ {"start"}
<1>1. CASE WorkMoves(q)
  <2>1. ~Rests(q) /\ ~TakesUp(q) /\ ~Gathers(q) /\ ~Purges(q) /\ ~PackageStep(q) /\ ~DestroyStep(q)
    BY DEF Rests, TakesUp, Gathers, Purges, PackageStep, DestroyStep, Turned, Starting
  <2> QED BY <1>1, <2>1 DEF WorkMoves, ImportStep, Turned, Starting, At
<1> QED BY <1>1, WorkStep DEF WorkMoves, Keeps

\* A worker that destroys the course did so before, or lists what it will destroy.
LEMMA DestroyerBefore ==
  ASSUME IInv, [Next]_vars, NEW p \in Workers, worker'[p].pc \in Destroying
  PROVE  \/ Gathers(p)
         \/ /\ worker[p].pc \in Destroying
            /\ \/ Purges(p)
               \/ /\ worker'[p].todo = worker[p].todo /\ worker'[p].done = worker[p].done
                  /\ worker'[p].pc = "teardown" =>
                       worker[p].pc = "teardown" \/ worker[p].todo = {}
<1>1. CASE WorkMoves(p)
  <2>1. ~Rests(p) /\ ~TakesUp(p) /\ ~Imports(p) /\ ~PackageStep(p) /\ ~ImportStep(p)
    BY DEF Rests, TakesUp, Imports, PackageStep, ImportStep, Turned, Destroying
  <2>2. Purges(p) => worker[p].pc \in Destroying
    BY DEF Purges, Destroying, At
  <2> QED BY <1>1, <2>1, <2>2 DEF WorkMoves, DestroyStep, Turned, Destroying, At
<1> QED BY <1>1, WorkStep DEF WorkMoves, Keeps

\* A worker that may take the course back could before, or starts on a course that
\* does not exist yet.
LEMMA BackerBefore ==
  ASSUME IInv, [Next]_vars, NEW p \in Workers, worker'[p].made,
         worker'[p].pc \in {"start", "upload", "reject"} \cup Undoing
  PROVE  \/ course = "absent"
         \/ MayTakeBack(p) /\ (worker'[p] = worker[p] \/ Imports(p) \/ ImportStep(p))
<1>1. CASE worker'[p] = worker[p]
  BY <1>1 DEF MayTakeBack
<1>2. CASE WorkMoves(p)
  <2>1. ~TakesUp(p) /\ ~Gathers(p) /\ ~Purges(p) /\ ~PackageStep(p) /\ ~DestroyStep(p)
    BY DEF TakesUp, Gathers, Purges, PackageStep, DestroyStep, Turned, Undoing
  <2>2. Rests(p) => course = "absent"
    BY DEF Rests
  <2>3. Imports(p) => MayTakeBack(p)
    BY DEF Imports, MayTakeBack, At
  <2>4. ImportStep(p) => MayTakeBack(p)
    BY DEF ImportStep, Turned, MayTakeBack, Undoing, At
  <2> QED BY <1>2, <2>1, <2>2, <2>3, <2>4 DEF WorkMoves
<1> QED BY <1>1, <1>2, WorkStep DEF WorkMoves, Keeps

\* What is on Cloud was there before, or has just been uploaded.
LEMMA OnCloudBefore ==
  ASSUME IInv, [Next]_vars, NEW n \in Packages, cloud'[n] \in OnCloud
  PROVE  \/ cloud[n] \in OnCloud
         \/ \E q \in Workers : At(q, "upload") /\ worker[q].of = n /\ worker'[q].pc # "upload"
  BY CloudStep DEF CloudMoves, OnCloud

\* Only an import that created the course undoes it.
LEMMA BackedStep == IInv /\ [Next]_vars => Backed'
<1> SUFFICES ASSUME IInv, [Next]_vars, NEW p \in Workers, worker'[p].pc \in Undoing
             PROVE  worker'[p].made
  BY DEF Backed
<1>0. Backed
  BY DEF IInv
<1>1. CASE worker'[p] = worker[p]
  BY <1>0, <1>1 DEF Backed
<1>2. CASE WorkMoves(p)
  <2>1. ~Rests(p) /\ ~TakesUp(p) /\ ~Imports(p) /\ ~Gathers(p) /\ ~Purges(p) /\ ~PackageStep(p)
        /\ ~DestroyStep(p)
    BY DEF Rests, TakesUp, Imports, Gathers, Purges, PackageStep, DestroyStep, Turned, Undoing
  <2> QED BY <1>0, <1>2, <2>1 DEF WorkMoves, ImportStep, Turned, Undoing, Backed, At
<1> QED BY <1>1, <1>2, WorkStep DEF WorkMoves, Keeps

\* A row whose upload is under way is not taken away from it.
LEMMA UploadKept ==
  ASSUME IInv, [Next]_vars, ~raced, NEW p \in Workers, At(p, "upload"),
         NEW n \in Packages, n = worker[p].of
  PROVE  pkg'[n].status \notin {"none", "PRUNED"}
<1>0. /\ pkg[n] \in Row /\ Moves(n) /\ Apart /\ Backed /\ Handled
      /\ pkg[n].status \notin {"none", "PRUNED"}
  BY MovesStep DEF IInv, TypeOK, Apart
<1>1. ASSUME NEW q \in Workers PROVE worker[q].pc \notin Destroying \cup Undoing
  <2>1. worker[q].pc \notin Destroying
    BY <1>0 DEF Apart, Starting, At
  <2>2. ASSUME worker[q].pc \in Undoing PROVE FALSE
    <3>1. MayTakeBack(q)
      BY <1>0, <2>2 DEF Backed, MayTakeBack
    <3>2. p # q
      BY <2>2 DEF At, Undoing
    <3> QED BY <1>0, <3>1, <3>2 DEF Apart
  <2> QED BY <2>1, <2>2
<1>2. ~Goes(n)
  BY <1>1 DEF Goes, Destroying, Undoing, At
<1>3. ~IsPruned(n)
  <2> SUFFICES ASSUME NEW q \in Workers, At(q, "pruned"), worker[q].of = n PROVE FALSE
    BY <1>1 DEF IsPruned, Destroying, At
  <2> QED BY <1>0 DEF Handled, Handling, At
<1>4. CASE Stays(n) \/ Ages(n) \/ Fails(n) \/ GetsJob(n) \/ GetsTree(n)
  BY <1>0, <1>4 DEF Stays, Ages, Fails, GetsJob, GetsTree, Row
<1>5. CASE GivesWay(n) \/ Succeeds(n) \/ Comes(n)
  BY <1>0, <1>5 DEF GivesWay, Succeeds, Comes, Row, NoRow
<1> QED BY <1>0, <1>2, <1>3, <1>4, <1>5 DEF Moves

\* A refused deletion is on record as long as the course is on Cloud.
LEMMA RefusedBefore ==
  ASSUME IInv, [Next]_vars, NEW n \in Packages, n \notin refused', cloud'[n] \in OnCloud
  PROVE  n \notin refused
<1>1. CASE refused' = refused
  BY <1>1
<1>2. ASSUME NEW m \in Packages,
             cloud' = [cloud EXCEPT ![m] = IF @ \in OnCloud THEN "gone" ELSE @],
             refused' = refused \ {m}, n \in refused
      PROVE  FALSE
  <2>1. cloud \in [Packages -> Clouds] /\ m = n
    BY <1>2 DEF IInv, TypeOK
  <2>2. cloud'[n] \notin OnCloud
    BY <1>2, <2>1 DEF OnCloud
  <2> QED BY <2>2
<1> QED BY <1>1, <1>2, RefusedStep DEF IInv

\* What is on Cloud keeps its name.
LEMMA NamedStep == IInv /\ [Next]_vars => CloudIsNamed'
<1> SUFFICES ASSUME IInv, [Next]_vars, ~raced', NEW n \in Packages, n \notin refused',
                    cloud'[n] \in OnCloud
             PROVE  pkg'[n].status \notin {"none", "PRUNED"}
  BY DEF CloudIsNamed
<1>0. ~raced /\ Apart /\ Backed /\ Handled /\ pkg[n] \in Row /\ Moves(n)
  BY MovesStep, CourseStep DEF IInv, TypeOK
<1>1. CASE \E q \in Workers : At(q, "upload") /\ worker[q].of = n /\ worker'[q].pc # "upload"
  BY <1>0, <1>1, UploadKept
<1>2. CASE cloud[n] \in OnCloud
  <2>0. n \notin refused
    BY RefusedBefore
  <2>1. pkg[n].status \notin {"none", "PRUNED"}
    BY <1>0, <1>2, <2>0 DEF IInv, CloudIsNamed
  <2>2. ASSUME NEW q \in Workers
        PROVE  /\ worker[q].pc \notin Undoing /\ ~At(q, "teardown")
               /\ At(q, "settle") => n \notin worker[q].done
               /\ At(q, "pruned") => worker[q].of # n
    <3>1. worker[q].pc \notin Undoing
      BY <1>0, <1>2 DEF Apart, Backed, MayTakeBack
    <3>2. ~At(q, "teardown")
      BY <1>0, <1>2, <2>0 DEF Apart, Destroying, At
    <3>3. At(q, "settle") => n \notin worker[q].done
      BY <1>0, <1>2 DEF Apart, Destroying, At
    <3>4. At(q, "pruned") => worker[q].of # n
      BY <1>0, <1>2 DEF Handled, Handling, OnCloud, At
    <3> QED BY <3>1, <3>2, <3>3, <3>4
  <2>3. ~Goes(n) /\ ~IsPruned(n)
    BY <2>2 DEF Goes, IsPruned, Undoing, At
  <2>4. CASE Stays(n) \/ Ages(n) \/ Fails(n) \/ GetsJob(n) \/ GetsTree(n)
    BY <1>0, <2>1, <2>4 DEF Stays, Ages, Fails, GetsJob, GetsTree, Row
  <2>5. CASE GivesWay(n) \/ Succeeds(n) \/ Comes(n)
    BY <1>0, <2>1, <2>5 DEF GivesWay, Succeeds, Comes, Row, NoRow
  <2> QED BY <1>0, <2>3, <2>4, <2>5 DEF Moves
<1> QED BY <1>1, <1>2, OnCloudBefore

\* Imports keep apart from destructions and from imports that may take the course back,
\* unless the history says otherwise.
LEMMA ApartStep == IInv /\ [Next]_vars => Apart'
<1> SUFFICES ASSUME IInv, [Next]_vars, ~raced', NEW p \in Workers
    PROVE  /\ worker'[p].pc \in Destroying =>
                /\ \A q \in Workers : worker'[q].pc \notin Starting \ {"start"}
                /\ \A n \in Packages \ refused' : cloud'[n] \in OnCloud => n \in worker'[p].todo
                /\ \A n \in worker'[p].done : cloud'[n] \notin OnCloud
                /\ worker'[p].pc = "teardown" => worker'[p].todo = {}
           /\ worker'[p].made /\ worker'[p].pc \in {"start", "upload", "reject"} \cup Undoing =>
                /\ \A n \in Packages : cloud'[n] \notin OnCloud
                /\ \A q \in Workers \ {p} : worker'[q].pc # "upload"
           /\ worker'[p].pc = "upload" => pkg'[worker'[p].of].status \notin {"none", "PRUNED"}
  BY DEF Apart, MayTakeBack, At
<1>0. ~raced /\ Apart /\ TypeOK /\ worker[p] \in Worker
  BY CourseStep DEF IInv, TypeOK
<1>1. ASSUME worker'[p].pc \in Destroying
      PROVE  /\ \A q \in Workers : worker'[q].pc \notin Starting \ {"start"}
             /\ \A n \in Packages \ refused' : cloud'[n] \in OnCloud => n \in worker'[p].todo
             /\ \A n \in worker'[p].done : cloud'[n] \notin OnCloud
             /\ worker'[p].pc = "teardown" => worker'[p].todo = {}
  <2>1. \A q \in Workers : worker[q].pc \notin Starting \ {"start"}
    <3>1. CASE Gathers(p)
      BY <3>1 DEF Gathers
    <3>2. CASE worker[p].pc \in Destroying
      BY <1>0, <3>2 DEF Apart
    <3> QED BY <1>1, <3>1, <3>2, DestroyerBefore
  <2>2. ASSUME NEW q \in Workers, worker'[q].pc \in Starting \ {"start"} PROVE FALSE
    <3>1. Imports(q) /\ q # p
      BY <1>1, <2>1, <2>2, StarterBefore DEF Starting, Destroying
    <3>2. worker'[p] = worker[p]
      <4>1. worker'[q] # worker[q]
        BY <3>1 DEF Imports, At
      <4> QED BY <3>1, <4>1, WorkStep DEF WorkMoves, Keeps
    <3> QED BY <1>1, <3>1, <3>2 DEF Imports
  <2>0. ASSUME NEW n \in Packages, cloud'[n] \in OnCloud PROVE cloud[n] \in OnCloud
    BY <2>0, <2>1, OnCloudBefore DEF Starting, At
  <2>3. ASSUME NEW n \in Packages, n \notin refused', cloud'[n] \in OnCloud
        PROVE  cloud[n] \in OnCloud /\ n \notin refused
    BY <2>0, <2>3, RefusedBefore
  <2>4. CASE Gathers(p)
    <3>1. ASSUME NEW n \in Packages, n \notin refused', cloud'[n] \in OnCloud
          PROVE  n \in worker'[p].todo
      BY <1>0, <2>3, <2>4, <3>1 DEF Gathers, IInv, CloudIsNamed
    <3> QED BY <2>2, <2>4, <3>1 DEF Gathers
  <2>5. CASE worker[p].pc \in Destroying /\ Purges(p)
    <3>1. PICK m \in worker[p].todo :
            /\ worker'[p].todo = worker[p].todo \ {m}
            /\ \/ cloud'[m] \notin OnCloud /\ worker'[p].done = worker[p].done \cup {m}
               \/ m \in refused' /\ worker'[p].done = worker[p].done
      BY <2>5 DEF Purges
    <3>2. worker[p].done \subseteq Packages
      BY <1>0 DEF Worker
    <3>3. /\ \A n \in Packages \ refused : cloud[n] \in OnCloud => n \in worker[p].todo
          /\ \A n \in worker[p].done : cloud[n] \notin OnCloud
      BY <1>0, <2>5 DEF Apart
    <3>4. worker'[p].pc # "teardown"
      BY <2>5 DEF Purges
    <3>5. ASSUME NEW n \in Packages \ refused', cloud'[n] \in OnCloud PROVE n \in worker'[p].todo
      BY <2>3, <3>1, <3>3, <3>5
    <3>6. ASSUME NEW n \in worker'[p].done PROVE cloud'[n] \notin OnCloud
      BY <2>0, <3>1, <3>2, <3>3, <3>6
    <3> QED BY <2>2, <3>4, <3>5, <3>6
  <2>6. CASE /\ worker[p].pc \in Destroying
             /\ worker'[p].todo = worker[p].todo /\ worker'[p].done = worker[p].done
             /\ worker'[p].pc = "teardown" =>
                  worker[p].pc = "teardown" \/ worker[p].todo = {}
    <3>1. worker[p].done \subseteq Packages
      BY <1>0 DEF Worker
    <3>2. /\ \A n \in Packages \ refused : cloud[n] \in OnCloud => n \in worker[p].todo
          /\ \A n \in worker[p].done : cloud[n] \notin OnCloud
          /\ worker[p].pc = "teardown" => worker[p].todo = {}
      BY <1>0, <2>6 DEF Apart, At
    <3>3. ASSUME NEW n \in Packages \ refused', cloud'[n] \in OnCloud PROVE n \in worker'[p].todo
      BY <2>3, <2>6, <3>2, <3>3
    <3>4. ASSUME NEW n \in worker'[p].done PROVE cloud'[n] \notin OnCloud
      BY <2>0, <2>6, <3>1, <3>2, <3>4
    <3> QED BY <2>2, <2>6, <3>2, <3>3, <3>4
  <2> QED BY <1>1, <2>4, <2>5, <2>6, DestroyerBefore
<1>2. ASSUME worker'[p].made, worker'[p].pc \in {"start", "upload", "reject"} \cup Undoing
      PROVE  /\ \A n \in Packages : cloud'[n] \notin OnCloud
             /\ \A q \in Workers \ {p} : worker'[q].pc # "upload"
  <2>1. CASE course = "absent"
    <3>1. (\A n \in Packages : cloud[n] = "none") /\ \A q \in Workers : At(q, "idle")
      BY <2>1 DEF IInv, Fresh
    <3>2. ASSUME NEW n \in Packages PROVE cloud'[n] \notin OnCloud
      BY <3>1, OnCloudBefore DEF OnCloud, At
    <3>3. ASSUME NEW q \in Workers PROVE worker'[q].pc # "upload"
      BY <3>1, UploaderBefore DEF Imports, At
    <3> QED BY <3>2, <3>3
  <2>2. CASE /\ course # "absent" /\ MayTakeBack(p)
             /\ worker'[p] = worker[p] \/ Imports(p) \/ ImportStep(p)
    <3>0. /\ \A n \in Packages : cloud[n] \notin OnCloud
          /\ \A q \in Workers \ {p} : ~At(q, "upload")
      BY <1>0, <2>2 DEF Apart
    <3>1. ASSUME NEW n \in Packages, cloud'[n] \in OnCloud PROVE FALSE
      <4>1. At(p, "upload") /\ worker'[p].pc # "upload"
        BY <3>0, <3>1, OnCloudBefore
      <4>2. ImportStep(p)
        BY <2>2, <4>1 DEF Imports, At
      <4>3. cloud' = cloud
        BY <1>2, <4>1, <4>2 DEF ImportStep, Turned, Undoing, At
      <4> QED BY <3>0, <3>1, <4>3
    <3>2. ASSUME NEW q \in Workers \ {p}, worker'[q].pc = "upload" PROVE FALSE
      <4>1. Imports(q)
        BY <3>0, <3>2, UploaderBefore DEF At
      <4> QED BY <2>2, <4>1 DEF Imports
    <3> QED BY <3>1, <3>2
  <2> QED BY <1>2, <2>1, <2>2, BackerBefore
<1>3. ASSUME worker'[p].pc = "upload" PROVE pkg'[worker'[p].of].status \notin {"none", "PRUNED"}
  <2>1. CASE Imports(p)
    BY <2>1 DEF Imports, NoRow
  <2>2. CASE worker'[p] = worker[p]
    <3>1. At(p, "upload")
      BY <1>3, <2>2 DEF At
    <3>2. PICK n \in Packages : n = worker[p].of
      BY <3>1 DEF IInv, Owned, Owning, At
    <3> QED BY <1>0, <2>2, <3>1, <3>2, UploadKept
  <2> QED BY <1>3, <2>1, <2>2, UploaderBefore
<1> QED BY <1>1, <1>2, <1>3

-----------------------------------------------------------------------------
LEMMA InvInit == Init => IInv
<1> SUFFICES ASSUME Init PROVE IInv
  OBVIOUS
<1> USE DEF Init
<1>1. \A p \in Workers : worker[p].pc = "idle" /\ worker[p].made = FALSE
  BY DEF Idle
<1>2. \A n \in Packages : pkg[n] = NoRow /\ pkg[n].status = "none" /\ ~pkg[n].tree
  BY DEF NoRow
<1>3. \A n \in Packages : cloud[n] = "none"
  OBVIOUS
<1>4. TypeOK
  <2>1. NoRow \in Row
    BY DEF NoRow, Row, Statuses, HardCap
  <2> QED BY <2>1, IdleWorker DEF TypeOK, Clouds, OnCloud
<1> HIDE DEF Init
<1>5. Rows /\ Fresh
  BY <1>1, <1>2, <1>3 DEF Rows, Fresh, At
<1>6. Owned /\ NoJobYet /\ Handled /\ Built
  BY <1>1 DEF Owned, NoJobYet, Handled, Built, Owning, Handling, Polling
<1>7. OneInFlight /\ BuiltIsKept /\ BuiltIsLive /\ ReadyIsLive
  BY <1>2 DEF OneInFlight, BuiltIsKept, BuiltIsLive, ReadyIsLive
<1>8. OnePublisher /\ PublishesOwn /\ NoneBehind
  BY <1>1, <1>2 DEF OnePublisher, PublishesOwn, NoneBehind, At
<1>9. Backed /\ Apart /\ CloudIsNamed
  BY <1>1, <1>3 DEF Backed, Apart, CloudIsNamed, MayTakeBack, Destroying, Undoing, OnCloud, At
<1> QED BY <1>4, <1>5, <1>6, <1>7, <1>8, <1>9 DEF IInv

LEMMA InvNext == IInv /\ [Next]_vars => IInv'
<1> SUFFICES ASSUME IInv, [Next]_vars PROVE IInv'
  OBVIOUS
<1>1. TypeOK' /\ Rows' /\ Fresh' /\ Owned' /\ NoJobYet' /\ Handled' /\ Built'
  BY TypeStep, RowsStep, FreshStep, OwnedStep, NoJobStep, HandledStep, BuiltStep
<1>2. OneInFlight' /\ BuiltIsKept' /\ BuiltIsLive' /\ OnePublisher' /\ PublishesOwn'
  BY FlightStep, KeptStep, LiveStep, PublisherStep, OwnTreeStep
<1>3. NoneBehind' /\ ReadyIsLive' /\ Backed' /\ Apart' /\ CloudIsNamed'
  BY NoneBehindStep, ReadyStep, BackedStep, ApartStep, NamedStep
<1> QED BY <1>1, <1>2, <1>3 DEF IInv

LEMMA Invariance == Spec => []IInv
  BY InvInit, InvNext, PTL DEF Spec

\* Every variable keeps its type.
THEOREM TypeCorrect == Spec => []TypeOK
<1>1. IInv => TypeOK
  BY DEF IInv
<1> QED BY <1>1, Invariance, PTL

\* Whatever requests of administrators and of the cron run at the same time, and
\* wherever they are cut off, no two imports of a course are in flight.
THEOREM OneImportAtATime == Spec => []OneInFlight
<1>1. IInv => OneInFlight
  BY DEF IInv
<1> QED BY <1>1, Invariance, PTL

\* A READY package is the one that is live and the one that is published.
THEOREM ReadyStaysLive == Spec => []ReadyIsLive
<1>1. IInv => ReadyIsLive
  BY DEF IInv
<1> QED BY <1>1, Invariance, PTL

\* A package whose tree went live is not given up before the hard cap.
THEOREM TreeKept == Spec => []BuiltIsKept
<1>1. IInv => BuiltIsKept
  BY DEF IInv
<1> QED BY <1>1, Invariance, PTL

\* Every course on SCORM Cloud has a row that names it, unless an import ran into a
\* destruction or into another import that may take the course back.
THEOREM CloudStaysNamed == Spec => []CloudIsNamed
<1>1. IInv => CloudIsNamed
  BY DEF IInv
<1> QED BY <1>1, Invariance, PTL
=============================================================================
