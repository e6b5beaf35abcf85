-------------------------- MODULE CourseVersioning --------------------------
(***************************************************************************)
(* The curriculum of one course: the live tree an admin edits, the published *)
(* versions (frozen manifests of section ids), and the pin that ties an      *)
(* enrolment to the version it is measured against.                         *)
(*                                                                          *)
(* Requests are processes ("slots") with one action per database round trip, *)
(* and may be cut off between two of them.  The statements of a Postgres     *)
(* transaction (READ COMMITTED) read what is committed when they run; its     *)
(* writes appear together at its last action.  The tree is its set of live   *)
(* sections: module, chapter and quiz rows take the same delete, restore and *)
(* publish paths and order does not matter to the properties below.          *)
(* The clean-up script an operator runs beside the service is one more kind   *)
(* of request ("tidy").                                                      *)
(***************************************************************************)
EXTENDS Naturals, FiniteSets

CONSTANTS
  Sections,     \* section rows ever created
  Versions,     \* course_versions rows ever created: a bound
  Enrolments,   \* user_courses rows of the course
  Slots,        \* concurrent requests
  Kinds,        \* what the requests of an instance ask for
  Null,
  MayCrash

Ops == {"create", "delete", "restore", "publish", "archive", "prune",
        "toggle", "migrate", "bulk", "tidy"}

ASSUME VersioningAssumption ==
  /\ IsFiniteSet(Sections) /\ IsFiniteSet(Versions) /\ Enrolments # {}
  /\ Kinds \subseteq Ops
  /\ Null \notin Versions \cup Sections \cup Enrolments
  /\ MayCrash \in BOOLEAN

VARIABLES
  section,      \* the row of each section
  version,      \* CourseVersion: status, number, manifest
  latest,       \* the versions flagged isLatest
  enrolment,    \* UserCourse: isActive, activatedAt set, enrolledVersionId
  req,
  promoted      \* history: the clean-up script has moved isLatest by hand

vars == <<section, version, latest, enrolment, req, promoted>>

Steps   == {"idle", "references", "hide", "remove", "purge", "restore",
            "publish", "decide", "write", "archive", "prune", "toggle",
            "pin", "activate", "repin", "tidy", "drop"}
Request == [op : Ops \cup {"none"}, pc : Steps,
            section : Sections \cup {Null}, hidden : BOOLEAN,
            manifest : SUBSET Sections, number : Nat,
            version : Versions \cup {Null}, doomed : SUBSET Versions,
            enrolment : Enrolments \cup {Null},
            active : BOOLEAN, first : BOOLEAN,
            unread : SUBSET Versions, keep : SUBSET Versions,
            seen : SUBSET Versions, latestToo : BOOLEAN]
Idle    == [op |-> "none", pc |-> "idle", section |-> Null, hidden |-> FALSE,
            manifest |-> {}, number |-> 0, version |-> Null, doomed |-> {},
            enrolment |-> Null, active |-> FALSE, first |-> FALSE,
            unread |-> {}, keep |-> {}, seen |-> {}, latestToo |-> FALSE]

At(r, step)       == req[r].pc = step
Become(r, record) == req' = [req EXCEPT ![r] = record]
Asks(r, op)       == At(r, "idle") /\ op \in Kinds

Live           == {s \in Sections : section[s] = "live"}
Existing       == {v \in Versions : version[v].status \in {"PUBLISHED", "ARCHIVED"}}
FreeRows       == {v \in Versions : version[v].status = "none"}
Pinned(v)      == {e \in Enrolments : enrolment[e].pin = v}
Published(v)   == version[v].status = "PUBLISHED"

\* Some version, archived ones included, lists the section.
Referenced(s) == \E v \in Existing : s \in version[v].manifest

\* Mutant: publishes are not serialised.
LockedNever == FALSE

\* The advisory lock a publish, or the script, holds until its transaction ends.
PublishLocked == \E r \in Slots : req[r].pc \in {"decide", "write", "drop"}

\* The row lock an activation holds between its update and its commit.
RowLocked(e) == \E r \in Slots : At(r, "activate") /\ req[r].enrolment = e

\* The rows of a set that carry its highest number.
Newest(rows) == {v \in rows : \A w \in rows : version[w].number <= version[v].number}

\* MAX(versionNumber) + 1, or 1 when there is no row.
NextNumbers ==
  IF Existing = {} THEN {1} ELSE {1 + version[v].number : v \in Newest(Existing)}

\* Mutant: publishing moves every active enrolment to the new version.
PinnedByPublishAll == {e \in Enrolments : enrolment[e].active}

\* The enrolments a publish pins: active and still unpinned.
PinnedByPublish ==
  {e \in Enrolments : enrolment[e].active /\ enrolment[e].pin = Null}

\* Mutant: without the foreign key's ON DELETE RESTRICT.
DeletableAlways(rows) == rows \subseteq Existing

\* Deletes of missing rows fail, and so do deletes of pinned versions.
Deletable(rows) == rows \subseteq Existing /\ \A v \in rows : Pinned(v) = {}

-----------------------------------------------------------------------------
Init ==
  /\ section \in [Sections -> {"absent", "live"}]
  /\ version = [v \in Versions |->
                  [status |-> "none", number |-> 0, manifest |-> {}]]
  /\ latest = {}
  /\ enrolment = [e \in Enrolments |->
                    [active |-> FALSE, activated |-> FALSE, pin |-> Null]]
  /\ req = [r \in Slots |-> Idle]
  /\ promoted = FALSE

\* The instance is stopped; open transactions roll back, locks are released.
Crash(r) ==
  /\ MayCrash /\ ~At(r, "idle")
  /\ Become(r, Idle)
  /\ UNCHANGED <<section, version, latest, enrolment, promoted>>

-----------------------------------------------------------------------------
(* Structural edits; create and delete end in an automatic publish *)

CreateSection(r) ==
  /\ Asks(r, "create")
  /\ \E s \in Sections :
       /\ section[s] = "absent"
       /\ section' = [section EXCEPT ![s] = "live"]
       /\ Become(r, [Idle EXCEPT !.op = "create", !.pc = "publish"])
  /\ UNCHANGED <<version, latest, enrolment, promoted>>

DeleteRequest(r) ==
  /\ Asks(r, "delete")
  /\ \E s \in Sections :
       /\ section[s] \in {"live", "archived"}
       /\ Become(r, [Idle EXCEPT !.op = "delete", !.pc = "references",
                       !.section = s, !.hidden = (section[s] = "archived")])
  /\ UNCHANGED <<section, version, latest, enrolment, promoted>>

\* The manifests of all versions are read to choose between the outcomes.
FindReferences(r) ==
  /\ At(r, "references")
  /\ IF Referenced(req[r].section)
     THEN IF req[r].hidden
          THEN Become(r, Idle)
          ELSE Become(r, [req[r] EXCEPT !.pc = "hide"])
     ELSE Become(r, [req[r] EXCEPT !.pc = IF req[r].hidden
                                            THEN "purge" ELSE "remove"])
  /\ UNCHANGED <<section, version, latest, enrolment, promoted>>

\* An update or a delete of a row that is gone ends the request.
RowGone(r) ==
  /\ req[r].pc \in {"hide", "remove", "purge", "restore"}
  /\ section[req[r].section] = "deleted"
  /\ Become(r, Idle)
  /\ UNCHANGED <<section, version, latest, enrolment, promoted>>

HideSection(r) ==
  /\ At(r, "hide") /\ section[req[r].section] # "deleted"
  /\ section' = [section EXCEPT ![req[r].section] = "archived"]
  /\ Become(r, [req[r] EXCEPT !.pc = "publish"])
  /\ UNCHANGED <<version, latest, enrolment, promoted>>

\* Hard delete; removing a row that was archived before publishes nothing.
RemoveSection(r) ==
  /\ req[r].pc \in {"remove", "purge"} /\ section[req[r].section] # "deleted"
  /\ section' = [section EXCEPT ![req[r].section] = "deleted"]
  /\ IF At(r, "remove") THEN Become(r, [req[r] EXCEPT !.pc = "publish"])
                        ELSE Become(r, Idle)
  /\ UNCHANGED <<version, latest, enrolment, promoted>>

RestoreRequest(r) ==
  /\ Asks(r, "restore")
  /\ \E s \in Sections :
       /\ section[s] = "archived"
       /\ Become(r, [Idle EXCEPT !.op = "restore", !.pc = "restore",
                                 !.section = s])
  /\ UNCHANGED <<section, version, latest, enrolment, promoted>>

\* Restoring publishes nothing: an admin publishes when ready.
RestoreSection(r) ==
  /\ At(r, "restore") /\ section[req[r].section] # "deleted"
  /\ section' = [section EXCEPT ![req[r].section] = "live"]
  /\ Become(r, Idle)
  /\ UNCHANGED <<version, latest, enrolment, promoted>>

-----------------------------------------------------------------------------
(* publishNewVersion *)

PublishRequest(r) ==
  /\ Asks(r, "publish")
  /\ Become(r, [Idle EXCEPT !.op = "publish", !.pc = "publish"])
  /\ UNCHANGED <<section, version, latest, enrolment, promoted>>

\* The lock is taken without waiting, then the live tree is read.
LockAndBuild(r) ==
  /\ At(r, "publish") /\ ~PublishLocked /\ FreeRows # {}
  /\ Become(r, [req[r] EXCEPT !.pc = "decide", !.manifest = Live])
  /\ UNCHANGED <<section, version, latest, enrolment, promoted>>

\* Another publish holds the lock: a 409, or an automatic publish dropped.
\* The second disjunct is the bound: no row is left for one more version.
PublishRefused(r) ==
  /\ At(r, "publish") /\ (PublishLocked \/ FreeRows = {})
  /\ Become(r, Idle)
  /\ UNCHANGED <<section, version, latest, enrolment, promoted>>

\* Skip when the latest version has the same structure, else number the next.
Decide(r) ==
  /\ At(r, "decide")
  /\ IF \E v \in latest : version[v].manifest = req[r].manifest
     THEN Become(r, Idle)
     ELSE \E old \in latest \cup {Null}, n \in NextNumbers :
            /\ old = Null => latest = {}
            /\ Become(r, [req[r] EXCEPT !.pc = "write", !.version = old,
                                        !.number = n])
  /\ UNCHANGED <<section, version, latest, enrolment, promoted>>

\* Demote, insert and pin commit together, after a wait for the activations
\* that have locked a row to pin; when the row to demote is gone nothing commits.
PublishVersion(r) ==
  /\ At(r, "write")
  /\ \A e \in PinnedByPublish : ~RowLocked(e)
  /\ IF req[r].version \in Existing \cup {Null}
     THEN \E v \in FreeRows :
            /\ version' = [version EXCEPT ![v] =
                 [status |-> "PUBLISHED", number |-> req[r].number,
                  manifest |-> req[r].manifest]]
            /\ latest' = (latest \ {req[r].version}) \cup {v}
            /\ enrolment' = [e \in Enrolments |->
                 IF e \in PinnedByPublish THEN [enrolment[e] EXCEPT !.pin = v]
                                          ELSE enrolment[e]]
     ELSE UNCHANGED <<version, latest, enrolment>>
  /\ Become(r, Idle)
  /\ UNCHANGED <<section, promoted>>

-----------------------------------------------------------------------------
(* archiveVersion and pruneOrphanVersions: read, decide, write later *)

Unused == {v \in Existing \ latest : Pinned(v) = {}}

ArchiveRequest(r) ==
  /\ Asks(r, "archive")
  /\ \E v \in Unused :
       Become(r, [Idle EXCEPT !.op = "archive", !.pc = "archive",
                              !.version = v])
  /\ UNCHANGED <<section, version, latest, enrolment, promoted>>

ArchiveVersion(r) ==
  /\ At(r, "archive")
  /\ version' = IF req[r].version \in Existing
                  THEN [version EXCEPT ![req[r].version].status = "ARCHIVED"]
                  ELSE version
  /\ Become(r, Idle)
  /\ UNCHANGED <<section, latest, enrolment, promoted>>

PruneRequest(r) ==
  /\ Asks(r, "prune") /\ Unused # {}
  /\ Become(r, [Idle EXCEPT !.op = "prune", !.pc = "prune",
                            !.doomed = Unused])
  /\ UNCHANGED <<section, version, latest, enrolment, promoted>>

\* All the deletes commit or none does.
PruneVersions(r) ==
  /\ At(r, "prune")
  /\ version' = IF Deletable(req[r].doomed)
                  THEN [v \in Versions |-> IF v \in req[r].doomed
                          THEN [version[v] EXCEPT !.status = "deleted"]
                          ELSE version[v]]
                  ELSE version
  /\ latest' = IF Deletable(req[r].doomed) THEN latest \ req[r].doomed ELSE latest
  /\ Become(r, Idle)
  /\ UNCHANGED <<section, enrolment, promoted>>

-----------------------------------------------------------------------------
(* prune-orphan-course-versions.ts, run by an operator beside the service *)

\* The ids are listed; --keep-latest-only gives up the latest version as well.
TidyRequest(r) ==
  /\ Asks(r, "tidy")
  /\ \E latestToo \in BOOLEAN :
       Become(r, [Idle EXCEPT !.op = "tidy", !.pc = "tidy",
                              !.latestToo = latestToo, !.unread = Existing])
  /\ UNCHANGED <<section, version, latest, enrolment, promoted>>

\* Each row is read with its enrolments and kept or doomed.
TidyRow(r) ==
  /\ At(r, "tidy")
  /\ \E v \in req[r].unread \cap Existing :
       LET seen == {v} \cap latest
           kept == {x \in {v} : Pinned(x) # {} \/ (x \in latest /\ ~req[r].latestToo)}
       IN  Become(r, [req[r] EXCEPT !.unread = req[r].unread \ {v},
                                    !.seen   = req[r].seen \cup seen,
                                    !.keep   = req[r].keep \cup kept,
                                    !.doomed = req[r].doomed \cup ({v} \ kept)])
  /\ UNCHANGED <<section, version, latest, enrolment, promoted>>

\* The version to promote: when the latest is to go and none that stays was
\* seen as the latest, the newest of what stays.
Promoted(r) ==
  IF req[r].doomed \cap req[r].seen # {} /\ req[r].keep \cap req[r].seen = {}
     /\ req[r].keep # {}
    THEN Newest(req[r].keep) ELSE {Null}

\* With something to drop, the lock is tried.
TidyLock(r) ==
  /\ At(r, "tidy") /\ req[r].unread = {}
  /\ req[r].doomed # {} /\ ~PublishLocked
  /\ \E v \in Promoted(r) :
       Become(r, [Idle EXCEPT !.op = "tidy", !.pc = "drop", !.version = v,
                              !.doomed = req[r].doomed])
  /\ UNCHANGED <<section, version, latest, enrolment, promoted>>

\* A listed row is gone, there is nothing to drop or the lock is taken.
TidyEnds(r) ==
  /\ At(r, "tidy")
  /\ \/ req[r].unread \ Existing # {}
     \/ req[r].unread = {} /\ (req[r].doomed = {} \/ PublishLocked)
  /\ Become(r, Idle)
  /\ UNCHANGED <<section, version, latest, enrolment, promoted>>

\* The promotion and the deletes commit together.
TidyDrop(r) ==
  LET doomed == req[r].doomed
      v      == req[r].version
  IN
  /\ At(r, "drop") /\ Deletable(doomed) /\ v \in Existing \cup {Null}
  /\ version' = [w \in Versions |-> IF w \in doomed
                    THEN [version[w] EXCEPT !.status = "deleted"]
                    ELSE version[w]]
  /\ latest' = (IF v = Null THEN latest ELSE {v}) \ doomed
  /\ promoted' = (promoted \/ v # Null)
  /\ Become(r, Idle)
  /\ UNCHANGED <<section, enrolment>>

\* A row to promote or to delete is gone, or has been pinned: nothing is done.
TidyFails(r) ==
  /\ At(r, "drop")
  /\ ~Deletable(req[r].doomed) \/ req[r].version \notin Existing \cup {Null}
  /\ Become(r, Idle)
  /\ UNCHANGED <<section, version, latest, enrolment, promoted>>

-----------------------------------------------------------------------------
(* toggleCourseStatus and pinEnrollmentToLatest *)

ToggleRequest(r) ==
  /\ Asks(r, "toggle")
  /\ \E e \in Enrolments, active \in BOOLEAN :
       LET first == active /\ ~enrolment[e].active /\ ~enrolment[e].activated
       IN  Become(r, [Idle EXCEPT !.op = "toggle", !.enrolment = e,
             !.active = active, !.first = first,
             !.pc = IF first /\ enrolment[e].pin = Null THEN "pin" ELSE "toggle"])
  /\ UNCHANGED <<section, version, latest, enrolment, promoted>>

\* Not a first activation: one update, and no pin.
Toggle(r) ==
  LET e == req[r].enrolment IN
  /\ At(r, "toggle") /\ ~RowLocked(e)
  /\ enrolment' = [enrolment EXCEPT
       ![e] = [active |-> req[r].active,
               activated |-> enrolment[e].activated \/ req[r].first,
               pin |-> enrolment[e].pin]]
  /\ Become(r, Idle)
  /\ UNCHANGED <<section, version, latest, promoted>>

\* The row is updated, and so locked; then the latest version is looked up.
PinRead(r) ==
  /\ At(r, "pin") /\ ~RowLocked(req[r].enrolment)
  /\ \E v \in {x \in latest : Published(x)} \cup {Null} :
       /\ v = Null <=> \/ enrolment[req[r].enrolment].pin # Null
                       \/ \A x \in latest : ~Published(x)
       /\ Become(r, [req[r] EXCEPT !.pc = "activate", !.version = v])
  /\ UNCHANGED <<section, version, latest, enrolment, promoted>>

\* A pin that is set stays; a pin to a version deleted meanwhile violates the
\* foreign key and rolls the activation back.
Activate(r) ==
  LET e == req[r].enrolment
      v == req[r].version
  IN
  /\ At(r, "activate")
  /\ enrolment' = IF v = Null \/ v \in Existing
       THEN [enrolment EXCEPT ![e] =
              [active |-> TRUE, activated |-> TRUE,
               pin |-> IF enrolment[e].pin = Null THEN v ELSE enrolment[e].pin]]
       ELSE enrolment
  /\ Become(r, Idle)
  /\ UNCHANGED <<section, version, latest, promoted>>

-----------------------------------------------------------------------------
(* migrateLearnerToVersion (published targets) and its bulk form (any) *)

MigrateRequest(r) ==
  /\ \E op \in {"migrate", "bulk"}, e \in Enrolments, v \in Existing :
       /\ Asks(r, op)
       /\ op = "migrate" => Published(v)
       /\ op = "bulk" => enrolment[e].pin # v
       /\ Become(r, [Idle EXCEPT !.op = op, !.pc = "repin",
                                 !.enrolment = e, !.version = v])
  /\ UNCHANGED <<section, version, latest, enrolment, promoted>>

\* _migrateOneLearner checks again that the version exists, not its status.
Migrate(r) ==
  LET e == req[r].enrolment
      v == req[r].version
  IN
  /\ At(r, "repin") /\ ~RowLocked(e)
  /\ enrolment' = IF v \in Existing THEN [enrolment EXCEPT ![e].pin = v]
                                    ELSE enrolment
  /\ Become(r, Idle)
  /\ UNCHANGED <<section, version, latest, promoted>>

-----------------------------------------------------------------------------
Ask(r) ==
  \/ CreateSection(r) \/ DeleteRequest(r) \/ RestoreRequest(r)
  \/ PublishRequest(r) \/ ArchiveRequest(r) \/ PruneRequest(r)
  \/ ToggleRequest(r) \/ MigrateRequest(r) \/ TidyRequest(r)

Continue(r) ==
  \/ FindReferences(r) \/ RowGone(r) \/ HideSection(r) \/ RemoveSection(r)
  \/ RestoreSection(r) \/ LockAndBuild(r) \/ PublishRefused(r) \/ Decide(r)
  \/ PublishVersion(r) \/ ArchiveVersion(r) \/ PruneVersions(r)
  \/ TidyRow(r) \/ TidyLock(r) \/ TidyEnds(r)
  \/ TidyDrop(r) \/ TidyFails(r)
  \/ Toggle(r) \/ PinRead(r) \/ Activate(r) \/ Migrate(r)

Next == \E r \in Slots : Ask(r) \/ Continue(r) \/ Crash(r)

Spec == Init /\ [][Next]_vars

-----------------------------------------------------------------------------
\* Rows and requests are of the kinds the schema gives them; a version that was
\* created has a natural number as its number.
TypeOK ==
  /\ section \in [Sections -> {"absent", "live", "archived", "deleted"}]
  /\ version \in [Versions ->
       [status : {"none", "PUBLISHED", "ARCHIVED", "deleted"}, number : Nat,
        manifest : SUBSET Sections]]
  /\ latest \subseteq Versions
  /\ enrolment \in [Enrolments ->
       [active : BOOLEAN, activated : BOOLEAN, pin : Versions \cup {Null}]]
  /\ req \in [Slots -> Request]
  /\ promoted \in BOOLEAN

\* Serialised by the advisory lock, concurrent publishes never collide on a
\* version number or leave two latest versions, whatever is archived, pruned or
\* promoted meanwhile.  Until the script has promoted an older version, there is
\* a latest version, it is published, and it carries the highest number.
LatestIsNewest ==
  /\ \A v, w \in Existing : version[v].number = version[w].number => v = w
  /\ \A v, w \in latest : v = w
  /\ latest \subseteq Existing
  /\ ~promoted =>
       /\ Existing # {} => latest # {}
       /\ \A v \in latest :
            /\ Published(v)
            /\ \A w \in Existing : version[w].number <= version[v].number

\* "If the current latest is deleted, promote the highest-remaining version": a
\* promotion leaves no version with a higher number than the one it promotes.
PromotesHighest ==
  [][promoted' /\ ~promoted =>
       \A v \in latest', w \in Existing' : version'[w].number <= version'[v].number]_vars

\* A pinned version can always be loaded: pruning what was an orphan when it
\* was read never deletes a version a learner has been pinned to since.
PinsResolve == \A e \in Enrolments : enrolment[e].pin \in Existing \cup {Null}

\* "A pin is never overwritten once set": only a migration moves a learner to
\* another version, however publishes and activations race.
OnlyMigrationsMovePins ==
  [][\A e \in Enrolments :
       enrolment[e].pin # Null /\ enrolment'[e].pin # enrolment[e].pin =>
         \E r \in Slots : At(r, "repin") /\ req[r].enrolment = e]_vars

\* Rows referenced by any version manifest are archived, not hard-deleted.
ReferencedRowsKept ==
  \A v \in Existing : \A s \in version[v].manifest : section[s] # "deleted"

\* The row action migrates to published versions only: the target is verified
\* again in the transaction, against it being archived since it was read.
MigratesToPublished ==
  [][\A r \in Slots :
       /\ At(r, "repin") /\ req[r].op = "migrate"
       /\ enrolment' # enrolment /\ req'[r] # req[r]
       => Published(req[r].version)]_vars

=============================================================================
