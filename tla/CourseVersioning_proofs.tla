------------------------ MODULE CourseVersioning_proofs ------------------------
(***************************************************************************)
(* Type correctness of CourseVersioning, the shape of the version list, that *)
(* every pin can be loaded and that only migrations move one, for any number *)
(* of sections, versions, enrolments and concurrent requests, with crashes.  *)
(*                                                                           *)
(* The argument: the advisory lock leaves one publish between its reads and  *)
(* its commit, so what it read of the version list (the latest version, the  *)
(* highest number) still stands when it writes, although versions may be     *)
(* archived and pruned in between.  Those touch versions that were not the    *)
(* latest when they were read, and only a promotion of the clean-up script    *)
(* makes an older version the latest again.                                  *)
(***************************************************************************)
EXTENDS CourseVersioning, TLAPS

\* One publish, or one run of the script, at a time holds the lock.
Publishing(r) == req[r].pc \in {"decide", "write", "drop"}
OnePublish    == \A r, s \in Slots : Publishing(r) /\ Publishing(s) => r = s

\* What a publish is about to write follows what is there.
WriteFollows ==
  \A r \in Slots : At(r, "write") =>
    /\ latest \subseteq {req[r].version}
    /\ \A v \in Existing : version[v].number < req[r].number

\* What is about to be archived or pruned is a version, and an older one until
\* a promotion.
OldTargets ==
  \A r \in Slots :
    /\ At(r, "archive") =>
         /\ req[r].version \in Versions \ FreeRows
         /\ ~promoted => req[r].version \notin latest
    /\ At(r, "prune") =>
         /\ req[r].doomed \cap FreeRows = {}
         /\ ~promoted => req[r].doomed \cap latest = {}

\* What the script has listed: when the latest version is among it, it is the
\* only one seen as the latest and nothing newer exists.
ListedFits(q) ==
  LET listed == q.unread \cup q.keep \cup q.doomed IN
  /\ listed \cap FreeRows = {}
  /\ q.keep \cap q.doomed = {} /\ q.unread \cap (q.keep \cup q.doomed) = {}
  /\ ~promoted =>
       /\ latest \cap q.doomed \subseteq q.seen
       /\ latest \cap listed # {} => Existing \subseteq listed /\ q.seen \subseteq latest

\* Without a promotion the latest version is dropped only with all the others.
DropFits(q) ==
  ~promoted /\ q.version = Null /\ latest \cap q.doomed # {} => Existing \subseteq q.doomed

Tidying ==
  \A r \in Slots : /\ At(r, "tidy") => ListedFits(req[r])
                   /\ At(r, "drop") => DropFits(req[r])

Safe == LatestIsNewest /\ OnePublish /\ WriteFollows /\ OldTargets /\ Tidying
IInv == TypeOK /\ Safe

-----------------------------------------------------------------------------
(* Type correctness *)

\* Replacing the request of one slot leaves the other slots alone.
LEMMA BecomeTyped ==
  ASSUME TypeOK, NEW r \in Slots, NEW record \in Request, Become(r, record)
  PROVE  /\ req' \in [Slots -> Request]
         /\ req'[r] = record
         /\ \A s \in Slots \ {r} : req'[s] = req[s]
  BY DEF TypeOK, Become

\* A free slot holds a well-formed request.
LEMMA IdleTyped == Idle \in Request
  BY DEF Idle, Request, Ops, Steps

\* The initial state is well typed.
LEMMA InitTyped == Init => TypeOK
<1>1. Init => promoted \in BOOLEAN
  BY Zenon DEF Init
<1>2. Init => /\ section \in [Sections -> {"absent", "live", "archived", "deleted"}]
              /\ latest \subseteq Versions
              /\ req \in [Slots -> Request]
  BY IdleTyped DEF Init
<1>3. Init => version \in [Versions ->
                [status : {"none", "PUBLISHED", "ARCHIVED", "deleted"},
                 number : Nat, manifest : SUBSET Sections]]
  BY DEF Init
<1>4. Init => enrolment \in [Enrolments ->
                [active : BOOLEAN, activated : BOOLEAN, pin : Versions \cup {Null}]]
  BY DEF Init
<1> QED
  BY <1>1, <1>2, <1>3, <1>4, Zenon DEF TypeOK

\* A step that writes no row keeps the types when its request stays typed.
LEMMA RequestOnly ==
  ASSUME TypeOK, UNCHANGED <<section, version, latest, enrolment, promoted>>,
         req' \in [Slots -> Request]
  PROVE  TypeOK'
  BY DEF TypeOK

\* The number of the next version is above every number there is.
LEMMA NextNumberAbove ==
  ASSUME TypeOK, NEW n \in NextNumbers
  PROVE  n \in Nat /\ \A v \in Existing : version[v].number < n
<1>1. \A v \in Existing : version[v].number \in Nat
  BY DEF TypeOK, Existing
<1>2. CASE Existing = {}
  BY <1>2 DEF NextNumbers
<1>3. CASE Existing # {}
  <2>1. PICK v \in Newest(Existing) : n = 1 + version[v].number
    BY <1>3 DEF NextNumbers
  <2> QED
    BY <1>1, <2>1 DEF Newest
<1> QED
  BY <1>2, <1>3

\* The first round trip of a request keeps every type.
LEMMA AskTyped ==
  ASSUME TypeOK, NEW r \in Slots, Ask(r)
  PROVE  TypeOK'
<1> USE DEF Idle, Request, Ops, Steps
<1>1. CASE CreateSection(r)
  <2>1. [Idle EXCEPT !.op = "create", !.pc = "publish"] \in Request
    BY IdleTyped
  <2>2. req' \in [Slots -> Request]
    BY <1>1, <2>1, BecomeTyped DEF CreateSection
  <2> QED
    BY <1>1, <2>2 DEF CreateSection, TypeOK
<1>2. CASE DeleteRequest(r)
  <2>1. PICK s \in Sections : Become(r, [Idle EXCEPT !.op = "delete",
            !.pc = "references", !.section = s,
            !.hidden = (section[s] = "archived")])
    BY <1>2 DEF DeleteRequest
  <2>2. PICK hidden \in BOOLEAN : hidden = (section[s] = "archived")
    OBVIOUS
  <2>3. [Idle EXCEPT !.op = "delete", !.pc = "references", !.section = s,
            !.hidden = hidden] \in Request
    OBVIOUS
  <2>4. Become(r, [Idle EXCEPT !.op = "delete", !.pc = "references",
            !.section = s, !.hidden = hidden])
    BY <2>1, <2>2, Zenon
  <2> QED
    BY <1>2, <2>3, <2>4, BecomeTyped, RequestOnly DEF DeleteRequest
<1>3. CASE RestoreRequest(r)
  <2>1. PICK s \in Sections : Become(r, [Idle EXCEPT !.op = "restore",
            !.pc = "restore", !.section = s])
    BY <1>3 DEF RestoreRequest
  <2>2. [Idle EXCEPT !.op = "restore", !.pc = "restore", !.section = s]
          \in Request
    BY IdleTyped
  <2> QED
    BY <1>3, <2>1, <2>2, BecomeTyped, RequestOnly DEF RestoreRequest
<1>4. CASE PublishRequest(r)
  <2>1. [Idle EXCEPT !.op = "publish", !.pc = "publish"] \in Request
    BY IdleTyped
  <2> QED
    BY <1>4, <2>1, BecomeTyped, RequestOnly DEF PublishRequest
<1>5. CASE ArchiveRequest(r)
  <2>1. PICK v \in Unused : Become(r, [Idle EXCEPT !.op = "archive",
            !.pc = "archive", !.version = v])
    BY <1>5 DEF ArchiveRequest
  <2>2. [Idle EXCEPT !.op = "archive", !.pc = "archive", !.version = v]
          \in Request
    BY IdleTyped DEF Unused, Existing
  <2> QED
    BY <1>5, <2>1, <2>2, BecomeTyped, RequestOnly DEF ArchiveRequest
<1>6. CASE PruneRequest(r)
  <2>1. [Idle EXCEPT !.op = "prune", !.pc = "prune", !.doomed = Unused]
          \in Request
    BY IdleTyped DEF Unused, Existing
  <2> QED
    BY <1>6, <2>1, BecomeTyped, RequestOnly DEF PruneRequest
<1>7. CASE ToggleRequest(r)
  <2>1. PICK e \in Enrolments, active \in BOOLEAN :
          LET first == active /\ ~enrolment[e].active /\ ~enrolment[e].activated
          IN  Become(r, [Idle EXCEPT !.op = "toggle", !.enrolment = e,
                !.active = active, !.first = first,
                !.pc = IF first /\ enrolment[e].pin = Null
                         THEN "pin" ELSE "toggle"])
    BY <1>7 DEF ToggleRequest
  <2> DEFINE first == active /\ ~enrolment[e].active /\ ~enrolment[e].activated
             pc == IF first /\ enrolment[e].pin = Null THEN "pin" ELSE "toggle"
  <2>2. PICK f \in BOOLEAN : f = first
    OBVIOUS
  <2>3. PICK step \in {"pin", "toggle"} : step = pc
    OBVIOUS
  <2> HIDE DEF first, pc
  <2>4. [Idle EXCEPT !.op = "toggle", !.enrolment = e, !.active = active,
                     !.first = f, !.pc = step] \in Request
    BY IdleTyped
  <2>5. Become(r, [Idle EXCEPT !.op = "toggle", !.enrolment = e,
                     !.active = active, !.first = f, !.pc = step])
    BY <2>1, <2>2, <2>3 DEF first, pc
  <2> QED
    BY <1>7, <2>4, <2>5, BecomeTyped, RequestOnly DEF ToggleRequest
<1>8. CASE MigrateRequest(r)
  <2>1. PICK op \in {"migrate", "bulk"}, e \in Enrolments, v \in Existing :
          Become(r, [Idle EXCEPT !.op = op, !.pc = "repin", !.enrolment = e,
                                 !.version = v])
    BY <1>8 DEF MigrateRequest
  <2>2. [Idle EXCEPT !.op = op, !.pc = "repin", !.enrolment = e,
                     !.version = v] \in Request
    BY IdleTyped DEF Existing
  <2> QED
    BY <1>8, <2>1, <2>2, BecomeTyped, RequestOnly DEF MigrateRequest
<1>9. CASE TidyRequest(r)
  <2>1. PICK latestToo \in BOOLEAN : Become(r, [Idle EXCEPT !.op = "tidy",
            !.pc = "tidy", !.latestToo = latestToo, !.unread = Existing])
    BY <1>9 DEF TidyRequest
  <2>2. [Idle EXCEPT !.op = "tidy", !.pc = "tidy", !.latestToo = latestToo,
                     !.unread = Existing] \in Request
    BY IdleTyped DEF Existing
  <2> QED
    BY <1>9, <2>1, <2>2, BecomeTyped, RequestOnly DEF TidyRequest
<1> QED
  BY <1>1, <1>2, <1>3, <1>4, <1>5, <1>6, <1>7, <1>8, <1>9 DEF Ask

\* Ending a request, or moving it to another step, keeps its type.
LEMMA MovedTyped ==
  ASSUME TypeOK, NEW r \in Slots,
         Become(r, Idle)
           \/ \E step \in Steps : Become(r, [req[r] EXCEPT !.pc = step])
  PROVE  req' \in [Slots -> Request]
<1>1. CASE Become(r, Idle)
  BY <1>1, BecomeTyped, IdleTyped
<1>2. CASE \E step \in Steps : Become(r, [req[r] EXCEPT !.pc = step])
  <2>1. PICK step \in Steps : Become(r, [req[r] EXCEPT !.pc = step])
    BY <1>2
  <2>2. req[r] \in Request
    BY DEF TypeOK
  <2>3. [req[r] EXCEPT !.pc = step] \in Request
    BY <2>2 DEF Request
  <2> QED
    BY <2>1, <2>3, BecomeTyped
<1> QED
  BY <1>1, <1>2

\* The later round trips of an edit of the tree keep every type.
LEMMA EditTyped ==
  ASSUME TypeOK, NEW r \in Slots,
         \/ FindReferences(r) \/ RowGone(r) \/ HideSection(r)
         \/ RemoveSection(r) \/ RestoreSection(r) \/ Crash(r)
  PROVE  TypeOK'
<1> USE DEF Steps
<1>1. CASE FindReferences(r)
  BY <1>1, MovedTyped, RequestOnly DEF FindReferences
<1>2. CASE RowGone(r)
  BY <1>2, MovedTyped, RequestOnly DEF RowGone
<1>3. CASE HideSection(r)
  <2>1. req' \in [Slots -> Request]
    BY <1>3, MovedTyped DEF HideSection
  <2> QED
    BY <1>3, <2>1 DEF HideSection, TypeOK
<1>4. CASE RemoveSection(r)
  <2>1. req' \in [Slots -> Request]
    BY <1>4, MovedTyped DEF RemoveSection
  <2> QED
    BY <1>4, <2>1 DEF RemoveSection, TypeOK
<1>5. CASE RestoreSection(r)
  <2>1. req' \in [Slots -> Request]
    BY <1>5, MovedTyped DEF RestoreSection
  <2> QED
    BY <1>5, <2>1 DEF RestoreSection, TypeOK
<1>6. CASE Crash(r)
  BY <1>6, MovedTyped, RequestOnly DEF Crash
<1> QED
  BY <1>1, <1>2, <1>3, <1>4, <1>5, <1>6

\* A publish keeps every type.
LEMMA PublishTyped ==
  ASSUME TypeOK, NEW r \in Slots,
         \/ LockAndBuild(r) \/ PublishRefused(r) \/ Decide(r)
         \/ PublishVersion(r)
  PROVE  TypeOK'
<1>0. req[r] \in Request
  BY DEF TypeOK
<1>1. CASE LockAndBuild(r)
  <2>1. [req[r] EXCEPT !.pc = "decide", !.manifest = Live] \in Request
    BY <1>0 DEF Request, Steps, Live
  <2> QED
    BY <1>1, <2>1, BecomeTyped, RequestOnly DEF LockAndBuild
<1>2. CASE PublishRefused(r)
  BY <1>2, MovedTyped, RequestOnly DEF PublishRefused
<1>3. CASE Decide(r)
  <2>1. CASE Become(r, Idle)
    BY <1>3, <2>1, MovedTyped, RequestOnly DEF Decide
  <2>2. CASE ~Become(r, Idle)
    <3>1. PICK old \in latest \cup {Null}, n \in NextNumbers :
            Become(r, [req[r] EXCEPT !.pc = "write", !.version = old,
                                     !.number = n])
      BY <1>3, <2>2 DEF Decide
    <3>2. old \in Versions \cup {Null} /\ n \in Nat
      BY NextNumberAbove DEF TypeOK
    <3>3. [req[r] EXCEPT !.pc = "write", !.version = old,
                         !.number = n] \in Request
      BY <1>0, <3>2 DEF Request, Steps
    <3> QED
      BY <1>3, <3>1, <3>3, BecomeTyped, RequestOnly DEF Decide
  <2> QED
    BY <2>1, <2>2
<1>4. CASE PublishVersion(r) /\ req[r].version \notin Existing \cup {Null}
  BY <1>4, MovedTyped, RequestOnly DEF PublishVersion
<1>5. CASE PublishVersion(r) /\ req[r].version \in Existing \cup {Null}
  <2>1. req' \in [Slots -> Request]
    BY <1>5, MovedTyped DEF PublishVersion
  <2>2. PICK v \in FreeRows :
       /\ version' = [version EXCEPT ![v] =
            [status |-> "PUBLISHED", number |-> req[r].number,
             manifest |-> req[r].manifest]]
       /\ latest' = (latest \ {req[r].version}) \cup {v}
       /\ enrolment' = [e \in Enrolments |->
            IF e \in PinnedByPublish THEN [enrolment[e] EXCEPT !.pin = v]
                                     ELSE enrolment[e]]
    BY <1>5 DEF PublishVersion
  <2>3. v \in Versions
    BY DEF FreeRows
  <2>4. req[r].number \in Nat /\ req[r].manifest \in SUBSET Sections
    BY <1>0 DEF Request
  <2>5. version' \in [Versions ->
          [status : {"none", "PUBLISHED", "ARCHIVED", "deleted"},
           number : Nat, manifest : SUBSET Sections]]
    BY <2>2, <2>3, <2>4 DEF TypeOK
  <2>6. enrolment' \in [Enrolments ->
          [active : BOOLEAN, activated : BOOLEAN, pin : Versions \cup {Null}]]
    BY <2>2, <2>3 DEF TypeOK
  <2>7. latest' \subseteq Versions
    BY <2>2, <2>3 DEF TypeOK
  <2> QED
    BY <1>5, <2>1, <2>5, <2>6, <2>7 DEF PublishVersion, TypeOK
<1> QED
  BY <1>1, <1>2, <1>3, <1>4, <1>5

\* Archiving and pruning keep every type.
LEMMA RetireTyped ==
  ASSUME TypeOK, NEW r \in Slots, ArchiveVersion(r) \/ PruneVersions(r)
  PROVE  TypeOK'
<1>1. req' \in [Slots -> Request]
  BY MovedTyped DEF ArchiveVersion, PruneVersions
<1>2. version' \in [Versions ->
          [status : {"none", "PUBLISHED", "ARCHIVED", "deleted"},
           number : Nat, manifest : SUBSET Sections]]
  <2>1. CASE ArchiveVersion(r)
    <3> DEFINE v == req[r].version
    <3>1. CASE v \in Existing
      <4>1. version' = [version EXCEPT ![v].status = "ARCHIVED"]
        BY <2>1, <3>1 DEF ArchiveVersion
      <4>2. v \in Versions
        BY <3>1 DEF Existing
      <4> QED
        BY <4>1, <4>2 DEF TypeOK
    <3>2. CASE v \notin Existing
      BY <2>1, <3>2 DEF ArchiveVersion, TypeOK
    <3> QED
      BY <3>1, <3>2
  <2>2. CASE PruneVersions(r)
    BY <2>2 DEF PruneVersions, TypeOK
  <2> QED
    BY <2>1, <2>2
<1>3. latest' \subseteq Versions
  BY DEF ArchiveVersion, PruneVersions, TypeOK
<1> QED
  BY <1>1, <1>2, <1>3 DEF ArchiveVersion, PruneVersions, TypeOK

\* The later round trips of the script keep every type.
LEMMA TidyTyped ==
  ASSUME TypeOK, NEW r \in Slots,
         TidyRow(r) \/ TidyLock(r) \/ TidyEnds(r) \/ TidyDrop(r) \/ TidyFails(r)
  PROVE  TypeOK'
<1>0. req[r] \in Request
  BY DEF TypeOK
<1>1. CASE TidyRow(r)
  <2>1. PICK v \in req[r].unread, seen \in SUBSET Versions, kept \in SUBSET Versions :
          Become(r, [req[r] EXCEPT !.unread = req[r].unread \ {v},
                                   !.seen   = req[r].seen \cup seen,
                                   !.keep   = req[r].keep \cup kept,
                                   !.doomed = req[r].doomed \cup ({v} \ kept)])
    <3>1. PICK v \in req[r].unread :
            LET seen == {v} \cap latest
                kept == {x \in {v} : Pinned(x) # {} \/ (x \in latest /\ ~req[r].latestToo)}
            IN  Become(r, [req[r] EXCEPT !.unread = req[r].unread \ {v},
                                         !.seen   = req[r].seen \cup seen,
                                         !.keep   = req[r].keep \cup kept,
                                         !.doomed = req[r].doomed \cup ({v} \ kept)])
      BY <1>1 DEF TidyRow
    <3>2. v \in Versions
      BY <1>0 DEF Request
    <3>3. {v} \cap latest \in SUBSET Versions
      BY <3>2
    <3>4. {x \in {v} : Pinned(x) # {} \/ (x \in latest /\ ~req[r].latestToo)}
            \in SUBSET Versions
      BY <3>2
    <3> QED
      BY <3>1, <3>3, <3>4, Zenon
  <2>2. v \in Versions
    BY <1>0 DEF Request
  <2>3. [req[r] EXCEPT !.unread = req[r].unread \ {v},
                       !.seen   = req[r].seen \cup seen,
                       !.keep   = req[r].keep \cup kept,
                       !.doomed = req[r].doomed \cup ({v} \ kept)] \in Request
    BY <1>0, <2>2 DEF Request
  <2> QED
    BY <1>1, <2>1, <2>3, BecomeTyped, RequestOnly DEF TidyRow
<1>2. CASE TidyLock(r)
  <2>1. PICK v \in Promoted(r) :
          Become(r, [Idle EXCEPT !.op = "tidy", !.pc = "drop", !.version = v,
                                 !.doomed = req[r].doomed])
    BY <1>2 DEF TidyLock
  <2>2. v \in Versions \cup {Null}
    BY <1>0 DEF Promoted, Newest, Request
  <2>3. [Idle EXCEPT !.op = "tidy", !.pc = "drop", !.version = v,
                     !.doomed = req[r].doomed] \in Request
    BY <1>0, <2>2 DEF Idle, Request, Ops, Steps
  <2> QED
    BY <1>2, <2>1, <2>3, BecomeTyped, RequestOnly DEF TidyLock
<1>3. CASE TidyEnds(r) \/ TidyFails(r)
  BY <1>3, MovedTyped, RequestOnly DEF TidyEnds, TidyFails
<1>4. CASE TidyDrop(r)
  <2>1. req' \in [Slots -> Request]
    BY <1>4, MovedTyped DEF TidyDrop
  <2>2. version' \in [Versions ->
          [status : {"none", "PUBLISHED", "ARCHIVED", "deleted"},
           number : Nat, manifest : SUBSET Sections]]
    BY <1>4 DEF TidyDrop, TypeOK
  <2>3. latest' \subseteq Versions /\ promoted' \in BOOLEAN
    BY <1>4 DEF TidyDrop, TypeOK, Existing
  <2> QED
    BY <1>4, <2>1, <2>2, <2>3 DEF TidyDrop, TypeOK
<1> QED
  BY <1>1, <1>2, <1>3, <1>4

\* Activations and migrations keep every type.
LEMMA EnrolTyped ==
  ASSUME TypeOK, NEW r \in Slots,
         Toggle(r) \/ PinRead(r) \/ Activate(r) \/ Migrate(r)
  PROVE  TypeOK'
<1> DEFINE Row == [active : BOOLEAN, activated : BOOLEAN,
                   pin : Versions \cup {Null}]
           e == req[r].enrolment
           v == req[r].version
<1>0. req[r] \in Request /\ enrolment \in [Enrolments -> Row]
  BY DEF TypeOK
<1>1. CASE Toggle(r)
  <2>1. req' \in [Slots -> Request]
    BY <1>1, MovedTyped DEF Toggle
  <2>2. enrolment' \in [Enrolments -> Row]
    <3>1. enrolment' = [enrolment EXCEPT
             ![e] = [active |-> req[r].active,
                     activated |-> enrolment[e].activated \/ req[r].first,
                     pin |-> enrolment[e].pin]]
      BY <1>1 DEF Toggle
    <3>2. PICK was \in BOOLEAN : was = (enrolment[e].activated \/ req[r].first)
      OBVIOUS
    <3>3. enrolment' = [enrolment EXCEPT
             ![e] = [active |-> req[r].active, activated |-> was,
                     pin |-> enrolment[e].pin]]
      BY <3>1, <3>2, Zenon
    <3>4. req[r].active \in BOOLEAN
      BY <1>0 DEF Request
    <3>5. e \in Enrolments => enrolment[e].pin \in Versions \cup {Null}
      BY <1>0
    <3> QED
      BY <1>0, <3>3, <3>4, <3>5
  <2> QED
    BY <1>1, <2>1, <2>2 DEF Toggle, TypeOK
<1>2. CASE PinRead(r)
  <2>1. PICK x \in latest \cup {Null} :
          Become(r, [req[r] EXCEPT !.pc = "activate", !.version = x])
    BY <1>2 DEF PinRead
  <2>2. [req[r] EXCEPT !.pc = "activate", !.version = x] \in Request
    BY <1>0 DEF TypeOK, Request, Steps
  <2> QED
    BY <1>2, <2>1, <2>2, BecomeTyped, RequestOnly DEF PinRead
<1>3. CASE Activate(r)
  <2>1. req' \in [Slots -> Request]
    BY <1>3, MovedTyped DEF Activate
  <2>2. enrolment' \in [Enrolments -> Row]
    <3>1. CASE v = Null \/ v \in Existing
      <4>1. v \in Versions \cup {Null}
        BY <3>1 DEF Existing
      <4> QED
        BY <1>0, <1>3, <3>1, <4>1 DEF Activate
    <3>2. CASE ~(v = Null \/ v \in Existing)
      BY <1>0, <1>3, <3>2 DEF Activate
    <3> QED
      BY <3>1, <3>2
  <2> QED
    BY <1>3, <2>1, <2>2 DEF Activate, TypeOK
<1>4. CASE Migrate(r)
  <2>1. req' \in [Slots -> Request]
    BY <1>4, MovedTyped DEF Migrate
  <2>2. enrolment' \in [Enrolments -> Row]
    BY <1>0, <1>4 DEF Migrate, Existing
  <2> QED
    BY <1>4, <2>1, <2>2 DEF Migrate, TypeOK
<1> QED
  BY <1>1, <1>2, <1>3, <1>4

\* Every step keeps the types.
LEMMA StepTyped == TypeOK /\ [Next]_vars => TypeOK'
<1> SUFFICES ASSUME TypeOK, [Next]_vars PROVE TypeOK'
  OBVIOUS
<1>1. CASE UNCHANGED vars
  BY <1>1 DEF vars, TypeOK
<1>2. ASSUME NEW r \in Slots, Ask(r) \/ Continue(r) \/ Crash(r)
      PROVE  TypeOK'
  BY <1>2, AskTyped, EditTyped, PublishTyped, RetireTyped, TidyTyped,
     EnrolTyped DEF Continue
<1> QED
  BY <1>1, <1>2 DEF Next

-----------------------------------------------------------------------------
(* The version list *)

\* A step that leaves the version list alone keeps its shape when what the one
\* request that moves holds now fits the list.
LEMMA OneMoved ==
  ASSUME IInv, TypeOK', UNCHANGED <<version, latest, promoted>>,
         NEW r \in Slots, NEW record, Become(r, record),
         record.pc \in {"decide", "write", "drop"} =>
           \A s \in Slots : Publishing(s) => s = r,
         record.pc = "write" =>
           /\ latest \subseteq {record.version}
           /\ \A v \in Existing : version[v].number < record.number,
         record.pc = "archive" => record.version \in Unused,
         record.pc = "prune" => record.doomed = Unused,
         record.pc = "tidy" => ListedFits(record),
         record.pc = "drop" => DropFits(record)
  PROVE  Safe'
<1>1. req'[r] = record /\ \A s \in Slots \ {r} : req'[s] = req[s]
  BY DEF IInv, TypeOK, Become
<1>2. LatestIsNewest'
  BY DEF IInv, Safe, LatestIsNewest, Existing, Published
<1>3. OnePublish'
  BY <1>1 DEF IInv, Safe, OnePublish, Publishing
<1>4. WriteFollows'
  BY <1>1 DEF IInv, Safe, WriteFollows, Existing, At
<1>5. OldTargets'
  <2>1. Unused \subseteq Versions \ (latest \cup FreeRows)
    BY DEF Unused, Existing, FreeRows
  <2> QED
    BY <1>1, <2>1 DEF IInv, Safe, OldTargets, FreeRows, At
<1>6. Tidying'
  <2>1. SUFFICES ASSUME NEW s \in Slots
                 PROVE  /\ At(s, "tidy")' => ListedFits(req[s])'
                        /\ At(s, "drop")' => DropFits(req[s])'
    BY DEF Tidying
  <2>2. \A q : ListedFits(q) => ListedFits(q)'
    BY DEF ListedFits, FreeRows, Existing
  <2>3. \A q : DropFits(q) => DropFits(q)'
    BY DEF DropFits, Existing
  <2>4. CASE s = r
    BY <1>1, <2>2, <2>3, <2>4 DEF At
  <2>5. CASE s # r
    BY <1>1, <2>2, <2>3, <2>5 DEF IInv, Safe, Tidying, At
  <2> QED
    BY <2>4, <2>5
<1> QED
  BY <1>2, <1>3, <1>4, <1>5, <1>6 DEF Safe

\* The steps at which a request neither publishes, retires nor tidies.
Elsewhere == Steps \ {"decide", "write", "archive", "prune", "tidy", "drop"}

\* A step that writes no version and whose request is elsewhere afterwards.
LEMMA Quiet ==
  ASSUME IInv, TypeOK', UNCHANGED <<version, latest, promoted>>,
         NEW r \in Slots, NEW record, Become(r, record), record.pc \in Elsewhere
  PROVE  Safe'
<1>1. record.pc \notin {"decide", "write", "archive", "prune", "tidy", "drop"}
  BY DEF Elsewhere
<1> QED
  BY <1>1, OneMoved

\* Requests end, start or move on without touching the version list.
LEMMA QuietSteps ==
  ASSUME IInv, TypeOK', NEW r \in Slots,
         \/ CreateSection(r) \/ DeleteRequest(r) \/ RestoreRequest(r)
         \/ PublishRequest(r) \/ ToggleRequest(r) \/ MigrateRequest(r)
         \/ FindReferences(r) \/ RowGone(r) \/ HideSection(r)
         \/ RemoveSection(r) \/ RestoreSection(r) \/ PublishRefused(r)
         \/ Toggle(r) \/ PinRead(r) \/ Activate(r) \/ Migrate(r) \/ Crash(r)
         \/ TidyEnds(r) \/ TidyFails(r)
  PROVE  Safe'
<1> USE DEF Elsewhere, Steps
<1>0. req[r] \in Request
  BY DEF IInv, TypeOK
<1>1. UNCHANGED <<version, latest, promoted>>
  BY DEF CreateSection, DeleteRequest, RestoreRequest, PublishRequest,
         ToggleRequest, MigrateRequest, FindReferences, RowGone, HideSection,
         RemoveSection, RestoreSection, PublishRefused, Toggle, PinRead,
         Activate, Migrate, Crash, TidyEnds, TidyFails
<1>2. Idle.pc \in Elsewhere
  BY DEF Idle
<1>3. \A step \in Elsewhere : [req[r] EXCEPT !.pc = step].pc \in Elsewhere
  BY <1>0 DEF Request
<1>4. SUFFICES \E record : Become(r, record) /\ record.pc \in Elsewhere
  BY <1>1, Quiet
<1>5. CASE \/ RowGone(r) \/ RestoreSection(r) \/ PublishRefused(r)
           \/ Toggle(r) \/ Activate(r) \/ Migrate(r) \/ Crash(r)
           \/ TidyEnds(r) \/ TidyFails(r)
  BY <1>2, <1>5 DEF RowGone, RestoreSection, PublishRefused, Toggle, Activate,
                    Migrate, Crash, TidyEnds, TidyFails
<1>6. CASE FindReferences(r) \/ HideSection(r) \/ RemoveSection(r)
  BY <1>2, <1>3, <1>6 DEF FindReferences, HideSection, RemoveSection, Steps
<1>7. CASE CreateSection(r) \/ PublishRequest(r)
  <2>1. \A op \in Ops :
          [Idle EXCEPT !.op = op, !.pc = "publish"].pc \in Elsewhere
    BY DEF Idle
  <2> QED
    BY <1>7, <2>1 DEF CreateSection, PublishRequest, Ops
<1>8. CASE DeleteRequest(r)
  <2>1. PICK s \in Sections : Become(r, [Idle EXCEPT !.op = "delete",
            !.pc = "references", !.section = s,
            !.hidden = (section[s] = "archived")])
    BY <1>8 DEF DeleteRequest
  <2>2. PICK hidden : hidden = (section[s] = "archived")
    OBVIOUS
  <2>3. [Idle EXCEPT !.op = "delete", !.pc = "references",
            !.section = s, !.hidden = hidden].pc \in Elsewhere
    BY DEF Idle
  <2> QED
    BY <2>1, <2>2, <2>3, Zenon
<1>9. CASE RestoreRequest(r)
  <2>1. PICK s \in Sections : Become(r, [Idle EXCEPT !.op = "restore",
            !.pc = "restore", !.section = s])
    BY <1>9 DEF RestoreRequest
  <2>2. [Idle EXCEPT !.op = "restore", !.pc = "restore",
            !.section = s].pc \in Elsewhere
    BY DEF Idle
  <2> QED
    BY <2>1, <2>2, Zenon
<1>10. CASE ToggleRequest(r)
  <2>1. PICK e \in Enrolments, active \in BOOLEAN :
          LET first == active /\ ~enrolment[e].active /\ ~enrolment[e].activated
          IN  Become(r, [Idle EXCEPT !.op = "toggle", !.enrolment = e,
                !.active = active, !.first = first,
                !.pc = IF first /\ enrolment[e].pin = Null
                         THEN "pin" ELSE "toggle"])
    BY <1>10 DEF ToggleRequest
  <2> DEFINE first == active /\ ~enrolment[e].active /\ ~enrolment[e].activated
             pc == IF first /\ enrolment[e].pin = Null THEN "pin" ELSE "toggle"
  <2>2. PICK f : f = first
    OBVIOUS
  <2>3. PICK step \in {"pin", "toggle"} : step = pc
    OBVIOUS
  <2> HIDE DEF first, pc
  <2>4. [Idle EXCEPT !.op = "toggle", !.enrolment = e,
                     !.active = active, !.first = f, !.pc = step].pc \in Elsewhere
    BY DEF Idle
  <2>5. Become(r, [Idle EXCEPT !.op = "toggle", !.enrolment = e,
                     !.active = active, !.first = f, !.pc = step])
    BY <2>1, <2>2, <2>3 DEF first, pc
  <2> QED
    BY <2>4, <2>5
<1>11. CASE MigrateRequest(r)
  <2>1. PICK op \in {"migrate", "bulk"}, e \in Enrolments, v \in Existing :
          Become(r, [Idle EXCEPT !.op = op, !.pc = "repin", !.enrolment = e,
                                 !.version = v])
    BY <1>11 DEF MigrateRequest
  <2>2. [Idle EXCEPT !.op = op, !.pc = "repin", !.enrolment = e,
                                 !.version = v].pc \in Elsewhere
    BY DEF Idle
  <2> QED
    BY <2>1, <2>2, Zenon
<1>12. CASE PinRead(r)
  <2>1. PICK v : Become(r, [req[r] EXCEPT !.pc = "activate", !.version = v])
    BY <1>12 DEF PinRead
  <2>2. [req[r] EXCEPT !.pc = "activate", !.version = v].pc \in Elsewhere
    BY <1>0 DEF Request
  <2> QED
    BY <2>1, <2>2, Zenon
<1> QED
  BY <1>5, <1>6, <1>7, <1>8, <1>9, <1>10, <1>11, <1>12

\* The lock is free when a publish takes it, so no other publish has read.
LEMMA LockSafe ==
  ASSUME IInv, TypeOK', NEW r \in Slots, LockAndBuild(r)
  PROVE  Safe'
<1>1. [req[r] EXCEPT !.pc = "decide", !.manifest = Live].pc = "decide"
  BY DEF IInv, TypeOK, Request
<1>2. \A s \in Slots : ~Publishing(s)
  BY DEF LockAndBuild, PublishLocked, Publishing
<1>3. /\ UNCHANGED <<version, latest, promoted>>
      /\ Become(r, [req[r] EXCEPT !.pc = "decide", !.manifest = Live])
  BY DEF LockAndBuild
<1> QED
  BY <1>1, <1>2, <1>3, OneMoved

\* What the publish has read is what the version list holds.
LEMMA DecideSafe ==
  ASSUME IInv, TypeOK', NEW r \in Slots, Decide(r)
  PROVE  Safe'
<1>0. req[r] \in Request /\ UNCHANGED <<version, latest, promoted>>
  BY DEF IInv, TypeOK, Decide
<1>1. CASE Become(r, Idle)
  BY <1>0, <1>1, Quiet DEF Idle, Elsewhere, Steps
<1>2. CASE ~Become(r, Idle)
  <2>1. PICK old \in latest \cup {Null}, n \in NextNumbers :
          /\ old = Null => latest = {}
          /\ Become(r, [req[r] EXCEPT !.pc = "write", !.version = old,
                                      !.number = n])
    BY <1>2 DEF Decide
  <2> DEFINE record == [req[r] EXCEPT !.pc = "write", !.version = old,
                                      !.number = n]
  <2>2. record.pc = "write" /\ record.version = old /\ record.number = n
    BY <1>0 DEF Request
  <2>3. \A s \in Slots : Publishing(s) => s = r
    BY DEF Decide, At, Publishing, IInv, Safe, OnePublish
  <2>4. latest \subseteq {old}
    BY <2>1 DEF IInv, Safe, LatestIsNewest
  <2>5. \A v \in Existing : version[v].number < n
    BY NextNumberAbove DEF IInv
  <2>6. Become(r, record)
    BY <2>1
  <2> HIDE DEF record
  <2> QED
    BY <1>0, <2>2, <2>3, <2>4, <2>5, <2>6, OneMoved
<1> QED
  BY <1>1, <1>2

\* The only publish writes the successor of the version it read, and a row that
\* was free is nobody's old version.
LEMMA PublishSafe ==
  ASSUME IInv, TypeOK', NEW r \in Slots, PublishVersion(r),
         req[r].version \in Existing \cup {Null}
  PROVE  Safe'
<1>0. /\ req[r] \in Request
      /\ version \in [Versions -> [status : {"none", "PUBLISHED", "ARCHIVED",
                                             "deleted"},
                                   number : Nat, manifest : SUBSET Sections]]
  BY DEF IInv, TypeOK
<1>1. PICK v \in FreeRows :
       /\ version' = [version EXCEPT ![v] =
            [status |-> "PUBLISHED", number |-> req[r].number,
             manifest |-> req[r].manifest]]
       /\ latest' = (latest \ {req[r].version}) \cup {v}
  BY DEF PublishVersion
<1>2. v \in Versions /\ v \notin Existing
  BY DEF FreeRows, Existing
<1>3. req'[r].pc = "idle" /\ \A s \in Slots \ {r} : req'[s] = req[s]
  BY DEF IInv, TypeOK, PublishVersion, Become, Idle
<1>4. /\ latest \subseteq {req[r].version}
      /\ \A w \in Existing : version[w].number < req[r].number
  BY DEF PublishVersion, IInv, Safe, WriteFollows, At
<1>5. latest' = {v}
  BY <1>1, <1>4
<1>6. Existing' = Existing \cup {v} /\ FreeRows' = FreeRows \ {v}
  BY <1>0, <1>1, <1>2 DEF Existing, FreeRows
<1>7. /\ version'[v].number = req[r].number /\ version'[v].status = "PUBLISHED"
      /\ \A w \in Existing : version'[w] = version[w]
  BY <1>0, <1>1, <1>2 DEF Existing
<1>8. \A w \in Existing' : version'[w].number \in Nat
  BY DEF TypeOK, Existing
<1>9. LatestIsNewest'
  <2>1. \A w, x \in Existing' : version'[w].number = version'[x].number => w = x
    <3>1. SUFFICES ASSUME NEW w \in Existing', NEW x \in Existing',
                          version'[w].number = version'[x].number
                   PROVE  w = x
      OBVIOUS
    <3>2. CASE w \in Existing /\ x \in Existing
      BY <1>7, <3>1, <3>2 DEF IInv, Safe, LatestIsNewest
    <3>3. CASE w = v /\ x \in Existing
      BY <1>4, <1>7, <1>8, <3>1, <3>3
    <3>4. CASE w \in Existing /\ x = v
      BY <1>4, <1>7, <1>8, <3>1, <3>4
    <3> QED
      BY <1>6, <3>2, <3>3, <3>4
  <2>2. \A w \in Existing' : version'[w].number <= version'[v].number
    BY <1>4, <1>6, <1>7, <1>8
  <2> QED
    BY <1>5, <1>6, <1>7, <2>1, <2>2 DEF LatestIsNewest, Published
<1>10. \A s \in Slots : ~Publishing(s)'
  <2>1. Publishing(r)
    BY DEF PublishVersion, Publishing, At
  <2> QED
    BY <1>3, <2>1 DEF IInv, Safe, OnePublish, Publishing
<1>11. OnePublish' /\ WriteFollows'
  BY <1>10 DEF OnePublish, WriteFollows, Publishing, At
<1>12. UNCHANGED promoted
  BY DEF PublishVersion
<1>13. OldTargets'
  <2>1. \A s \in Slots : At(s, "archive")' \/ At(s, "prune")' =>
                           s # r /\ req'[s] = req[s]
    BY <1>3 DEF At
  <2> QED
    BY <1>5, <1>6, <1>12, <2>1 DEF IInv, Safe, OldTargets, At
<1>14. Tidying'
  <2>1. SUFFICES ASSUME NEW s \in Slots, At(s, "tidy")' \/ At(s, "drop")'
                 PROVE  At(s, "tidy")' /\ ListedFits(req[s])'
    BY <1>10 DEF Tidying, Publishing, At
  <2>2. At(s, "tidy")' /\ s # r /\ req'[s] = req[s]
    BY <1>3, <1>10, <2>1 DEF Publishing, At
  <2>3. ListedFits(req[s])
    BY <2>2 DEF IInv, Safe, Tidying, At
  <2> QED
    BY <1>5, <1>6, <2>2, <2>3 DEF ListedFits
<1> QED
  BY <1>9, <1>11, <1>13, <1>14 DEF Safe

\* What an admin picks to archive or prune is not the latest version.
LEMMA RetireRequestSafe ==
  ASSUME IInv, TypeOK', NEW r \in Slots, ArchiveRequest(r) \/ PruneRequest(r)
  PROVE  Safe'
<1>1. UNCHANGED <<version, latest, promoted>>
  BY DEF ArchiveRequest, PruneRequest
<1>2. CASE ArchiveRequest(r)
  <2>1. PICK v \in Unused : Become(r, [Idle EXCEPT !.op = "archive",
            !.pc = "archive", !.version = v])
    BY <1>2 DEF ArchiveRequest
  <2> DEFINE record == [Idle EXCEPT !.op = "archive", !.pc = "archive",
                                    !.version = v]
  <2>2. record.pc = "archive" /\ record.version = v
    BY DEF Idle
  <2>3. Become(r, record)
    BY <2>1
  <2> HIDE DEF record
  <2> QED
    BY <1>1, <2>2, <2>3, OneMoved
<1>3. CASE PruneRequest(r)
  <2> DEFINE record == [Idle EXCEPT !.op = "prune", !.pc = "prune",
                                    !.doomed = Unused]
  <2>1. record.pc = "prune" /\ record.doomed = Unused
    BY DEF Idle
  <2>2. Become(r, record)
    BY <1>3 DEF PruneRequest
  <2> HIDE DEF record
  <2> QED
    BY <1>1, <2>1, <2>2, OneMoved
<1> QED
  BY <1>2, <1>3

\* Rows that go, and a latest version that goes with them, leave what is read
\* and listed fitting: what remains was there before.
LEMMA Shrinks ==
  ASSUME IInv, TypeOK', LatestIsNewest', NEW r \in Slots, Become(r, Idle),
         Existing' \subseteq Existing, FreeRows' = FreeRows,
         \A v \in Existing' : version'[v].number = version[v].number,
         promoted => promoted', ~promoted' => latest' \subseteq latest,
         At(r, "drop") \/ latest' \subseteq latest
  PROVE  Safe'
<1>1. req'[r].pc = "idle" /\ \A s \in Slots \ {r} : req'[s] = req[s]
  BY DEF IInv, TypeOK, Become, Idle
<1>2. OnePublish'
  BY <1>1 DEF IInv, Safe, OnePublish, Publishing
<1>3. WriteFollows'
  <2>1. SUFFICES ASSUME NEW s \in Slots, At(s, "write")'
                 PROVE  /\ latest' \subseteq {req'[s].version}
                        /\ \A v \in Existing' : version'[v].number < req'[s].number
    BY DEF WriteFollows
  <2>2. s # r /\ req'[s] = req[s] /\ At(s, "write")
    BY <1>1, <2>1 DEF At
  <2>3. latest' \subseteq latest
    BY <2>2 DEF IInv, Safe, OnePublish, Publishing, At
  <2> QED
    BY <2>2, <2>3 DEF IInv, Safe, WriteFollows
<1>4. OldTargets'
  BY <1>1 DEF IInv, Safe, OldTargets, At
<1>5. Tidying'
  <2>1. SUFFICES ASSUME NEW s \in Slots
                 PROVE  /\ At(s, "tidy")' => ListedFits(req[s])'
                        /\ At(s, "drop")' => DropFits(req[s])'
    BY DEF Tidying
  <2>2. ASSUME At(s, "tidy")' PROVE ListedFits(req[s])'
    <3>1. req'[s] = req[s] /\ ListedFits(req[s])
      BY <1>1, <2>2 DEF IInv, Safe, Tidying, At
    <3>2. \A v, w \in latest : v = w
      BY DEF IInv, Safe, LatestIsNewest
    <3> QED
      BY <3>1, <3>2 DEF ListedFits
  <2>3. ASSUME At(s, "drop")' PROVE DropFits(req[s])'
    <3>1. req'[s] = req[s] /\ DropFits(req[s])
      BY <1>1, <2>3 DEF IInv, Safe, Tidying, At
    <3> QED
      BY <3>1 DEF DropFits
  <2> QED
    BY <2>2, <2>3
<1> QED
  BY <1>2, <1>3, <1>4, <1>5 DEF Safe

\* Rows deleted of the version list, with no promotion or with one.
LEMMA DeletedRows ==
  ASSUME IInv, NEW doomed, doomed \subseteq Existing,
         version' = [v \in Versions |-> IF v \in doomed
                       THEN [version[v] EXCEPT !.status = "deleted"]
                       ELSE version[v]]
  PROVE  /\ Existing' = Existing \ doomed
         /\ FreeRows' = FreeRows
         /\ \A v \in Existing' : version'[v] = version[v]
<1>1. version \in [Versions -> [status : {"none", "PUBLISHED", "ARCHIVED",
                                          "deleted"},
                                number : Nat, manifest : SUBSET Sections]]
  BY DEF IInv, TypeOK
<1> QED
  BY <1>1 DEF Existing, FreeRows

\* Archiving and pruning leave the free rows alone, and the latest version
\* unless it was promoted.
LEMMA RetireSafe ==
  ASSUME IInv, TypeOK', NEW r \in Slots, ArchiveVersion(r) \/ PruneVersions(r)
  PROVE  Safe'
<1>0. version \in [Versions -> [status : {"none", "PUBLISHED", "ARCHIVED",
                                          "deleted"},
                                number : Nat, manifest : SUBSET Sections]]
  BY DEF IInv, TypeOK
<1>1. UNCHANGED promoted /\ Become(r, Idle)
  BY DEF ArchiveVersion, PruneVersions
<1>2. CASE UNCHANGED <<version, latest>>
  BY <1>1, <1>2, Quiet DEF Idle, Elsewhere, Steps
<1>3. CASE ArchiveVersion(r) /\ ~UNCHANGED <<version, latest>>
  <2> DEFINE v == req[r].version
  <2>1. v \in Existing /\ version' = [version EXCEPT ![v].status = "ARCHIVED"]
        /\ UNCHANGED latest
    BY <1>3 DEF ArchiveVersion
  <2>2. ~promoted => v \notin latest
    BY <1>3 DEF ArchiveVersion, IInv, Safe, OldTargets
  <2> HIDE DEF v
  <2>3. /\ Existing' = Existing /\ FreeRows' = FreeRows
        /\ \A w \in Existing : version'[w].number = version[w].number
        /\ \A w \in latest : w # v => version'[w] = version[w]
    BY <1>0, <2>1 DEF Existing, FreeRows
  <2>4. LatestIsNewest'
    BY <1>1, <2>1, <2>2, <2>3 DEF IInv, Safe, LatestIsNewest, Published
  <2> QED
    BY <1>1, <2>1, <2>3, <2>4, Shrinks
<1>4. CASE PruneVersions(r) /\ ~UNCHANGED <<version, latest>>
  <2> DEFINE doomed == req[r].doomed
  <2>1. /\ doomed \subseteq Existing /\ latest' = latest \ doomed
        /\ version' = [w \in Versions |-> IF w \in doomed
                          THEN [version[w] EXCEPT !.status = "deleted"]
                          ELSE version[w]]
    BY <1>4 DEF PruneVersions, Deletable
  <2>2. ~promoted => doomed \cap latest = {}
    BY <1>4 DEF PruneVersions, IInv, Safe, OldTargets
  <2> HIDE DEF doomed
  <2>3. /\ Existing' = Existing \ doomed /\ FreeRows' = FreeRows
        /\ \A w \in Existing' : version'[w] = version[w]
    BY <2>1, DeletedRows
  <2>4. LatestIsNewest'
    BY <1>1, <2>1, <2>2, <2>3 DEF IInv, Safe, LatestIsNewest, Published
  <2> QED
    BY <1>1, <2>1, <2>3, <2>4, Shrinks
<1> QED
  BY <1>2, <1>3, <1>4

-----------------------------------------------------------------------------
(* The clean-up script *)

\* What it lists is what there is.
LEMMA TidyRequestSafe ==
  ASSUME IInv, TypeOK', NEW r \in Slots, TidyRequest(r)
  PROVE  Safe'
<1>1. PICK latestToo \in BOOLEAN : Become(r, [Idle EXCEPT !.op = "tidy",
          !.pc = "tidy", !.latestToo = latestToo, !.unread = Existing])
  BY DEF TidyRequest
<1> DEFINE record == [Idle EXCEPT !.op = "tidy", !.pc = "tidy",
                        !.latestToo = latestToo, !.unread = Existing]
<1>2. /\ record.pc = "tidy" /\ record.unread = Existing /\ record.keep = {}
      /\ record.doomed = {} /\ record.seen = {}
  BY DEF Idle
<1>3. Become(r, record)
  BY <1>1
<1> HIDE DEF record
<1>4. ListedFits(record)
  BY <1>2 DEF ListedFits, Existing, FreeRows
<1>5. UNCHANGED <<version, latest, promoted>>
  BY DEF TidyRequest
<1> QED
  BY <1>2, <1>3, <1>4, <1>5, OneMoved

\* A row is read: what was seen as the latest still is, if it is listed.
LEMMA TidyRowSafe ==
  ASSUME IInv, TypeOK', NEW r \in Slots, TidyRow(r)
  PROVE  Safe'
<1>0. req[r] \in Request /\ ListedFits(req[r]) /\ UNCHANGED <<version, latest, promoted>>
  BY DEF IInv, TypeOK, Safe, Tidying, TidyRow
<1>a. PICK v \in req[r].unread \cap Existing :
        LET seen == {v} \cap latest
            kept == {x \in {v} : Pinned(x) # {} \/ (x \in latest /\ ~req[r].latestToo)}
        IN  Become(r, [req[r] EXCEPT !.unread = req[r].unread \ {v},
                                     !.seen   = req[r].seen \cup seen,
                                     !.keep   = req[r].keep \cup kept,
                                     !.doomed = req[r].doomed \cup ({v} \ kept)])
  BY DEF TidyRow
<1>1. PICK kept \in SUBSET {v} :
        Become(r, [req[r] EXCEPT !.unread = req[r].unread \ {v},
                                 !.seen   = req[r].seen \cup ({v} \cap latest),
                                 !.keep   = req[r].keep \cup kept,
                                 !.doomed = req[r].doomed \cup ({v} \ kept)])
  <2>1. {x \in {v} : Pinned(x) # {} \/ (x \in latest /\ ~req[r].latestToo)}
          \in SUBSET {v}
    OBVIOUS
  <2> QED
    BY <1>a, <2>1, Zenon
<1> DEFINE record == [req[r] EXCEPT !.unread = req[r].unread \ {v},
                                 !.seen   = req[r].seen \cup ({v} \cap latest),
                                 !.keep   = req[r].keep \cup kept,
                                 !.doomed = req[r].doomed \cup ({v} \ kept)]
<1>2. /\ record.pc = "tidy" /\ record.unread = req[r].unread \ {v}
      /\ record.seen = req[r].seen \cup ({v} \cap latest)
      /\ record.keep = req[r].keep \cup kept
      /\ record.doomed = req[r].doomed \cup ({v} \ kept)
  BY <1>0 DEF TidyRow, At, Request
<1>3. Become(r, record)
  BY <1>1
<1> HIDE DEF record
<1>4. record.unread \cup record.keep \cup record.doomed =
        req[r].unread \cup req[r].keep \cup req[r].doomed
  BY <1>1, <1>2
<1>5. ListedFits(record)
  <2>1. \A x, y \in latest : x = y
    BY DEF IInv, Safe, LatestIsNewest
  <2> QED
    BY <1>0, <1>1, <1>2, <1>4, <2>1 DEF ListedFits
<1> QED
  BY <1>0, <1>2, <1>3, <1>5, OneMoved
\* A plan that promotes nothing drops the latest version with all the others.
LEMMA TidyLockSafe ==
  ASSUME IInv, TypeOK', NEW r \in Slots, TidyLock(r)
  PROVE  Safe'
<1>0. /\ ListedFits(req[r]) /\ req[r].unread = {}
      /\ UNCHANGED <<version, latest, promoted>>
  BY DEF IInv, Safe, Tidying, TidyLock
<1>1. PICK v \in Promoted(r) :
        Become(r, [Idle EXCEPT !.op = "tidy", !.pc = "drop", !.version = v,
                               !.doomed = req[r].doomed])
  BY DEF TidyLock
<1> DEFINE record == [Idle EXCEPT !.op = "tidy", !.pc = "drop", !.version = v,
                               !.doomed = req[r].doomed]
<1>2. record.pc = "drop" /\ record.version = v /\ record.doomed = req[r].doomed
  BY DEF Idle
<1>3. Become(r, record)
  BY <1>1
<1> HIDE DEF record
<1>4. \A s \in Slots : ~Publishing(s)
  BY DEF TidyLock, PublishLocked, Publishing
<1>5. DropFits(record)
  <2>1. SUFFICES ASSUME ~promoted, v = Null, latest \cap req[r].doomed # {}
                 PROVE  Existing \subseteq req[r].doomed
    BY <1>2 DEF DropFits
  <2>2. /\ Existing \subseteq req[r].keep \cup req[r].doomed
        /\ req[r].seen \subseteq latest
        /\ req[r].doomed \cap req[r].seen # {}
    BY <1>0, <2>1 DEF ListedFits
  <2>3. req[r].keep \cap req[r].seen = {}
    <3>1. \A x, y \in latest : x = y
      BY DEF IInv, Safe, LatestIsNewest
    <3> QED
      BY <1>0, <2>1, <2>2, <3>1 DEF ListedFits
  <2>4. req[r].keep = {}
    <3>1. SUFFICES ASSUME req[r].keep # {} PROVE FALSE
      OBVIOUS
    <3>2. v \in Newest(req[r].keep)
      BY <1>1, <2>2, <2>3, <3>1 DEF Promoted
    <3>3. v \in Versions
      BY <3>2 DEF Newest, IInv, TypeOK, Request
    <3> QED
      BY <2>1, <3>3, VersioningAssumption
  <2> QED
    BY <2>2, <2>4
<1> QED
  BY <1>0, <1>2, <1>3, <1>4, <1>5, OneMoved

\* The deletes leave the latest version, or no version at all, or a promotion.
LEMMA TidyDropSafe ==
  ASSUME IInv, TypeOK', NEW r \in Slots, TidyDrop(r)
  PROVE  Safe'
<1> DEFINE doomed == req[r].doomed
           v      == req[r].version
<1>1. /\ doomed \subseteq Existing /\ v \in Existing \cup {Null}
      /\ version' = [w \in Versions |-> IF w \in doomed
                        THEN [version[w] EXCEPT !.status = "deleted"]
                        ELSE version[w]]
      /\ latest' = (IF v = Null THEN latest ELSE {v}) \ doomed
      /\ promoted' = (promoted \/ v # Null)
      /\ Become(r, Idle) /\ At(r, "drop")
  BY DEF TidyDrop, Deletable
<1>2. ~promoted /\ v = Null /\ latest \cap doomed # {} => Existing \subseteq doomed
  BY <1>1 DEF IInv, Safe, Tidying, DropFits
<1> HIDE DEF doomed, v
<1>3. /\ Existing' = Existing \ doomed /\ FreeRows' = FreeRows
      /\ \A w \in Existing' : version'[w] = version[w]
  BY <1>1, DeletedRows
<1>4. promoted \in BOOLEAN
  BY DEF IInv, TypeOK
<1>5. (promoted => promoted') /\ (~promoted' => ~promoted /\ v = Null)
  BY <1>1, <1>4
<1>6. LatestIsNewest'
  <2>1. /\ \A x, w \in Existing' : version'[x].number = version'[w].number => x = w
        /\ \A x, w \in latest' : x = w
        /\ latest' \subseteq Existing'
    BY <1>1, <1>3 DEF IInv, Safe, LatestIsNewest
  <2>2. ASSUME ~promoted'
        PROVE  /\ Existing' # {} => latest' # {}
               /\ \A x \in latest' :
                    /\ Published(x)'
                    /\ \A w \in Existing' : version'[w].number <= version'[x].number
    <3>1. latest' = latest \ doomed
      BY <1>1, <1>5, <2>2
    <3> QED
      BY <1>2, <1>3, <1>5, <2>1, <2>2, <3>1 DEF IInv, Safe, LatestIsNewest, Published
  <2> QED
    BY <2>1, <2>2 DEF LatestIsNewest
<1> QED
  BY <1>1, <1>3, <1>5, <1>6, Shrinks

\* A course without versions has the shape.
LEMMA InitSafe == Init => Safe
  BY DEF Init, Safe, LatestIsNewest, OnePublish, Publishing, WriteFollows,
         OldTargets, Tidying, Existing, FreeRows, At, Idle

\* Every step keeps the shape of the version list.
LEMMA StepSafe == IInv /\ TypeOK' /\ [Next]_vars => Safe'
<1> SUFFICES ASSUME IInv, TypeOK', [Next]_vars PROVE Safe'
  OBVIOUS
<1>1. CASE UNCHANGED vars
  BY <1>1 DEF IInv, Safe, LatestIsNewest, OnePublish, Publishing, WriteFollows,
              OldTargets, Tidying, ListedFits, DropFits, Existing, Published,
              FreeRows, At, vars
<1>2. ASSUME NEW r \in Slots, Ask(r) \/ Continue(r) \/ Crash(r)
      PROVE  Safe'
  <2>1. CASE PublishVersion(r) /\ req[r].version \notin Existing \cup {Null}
    <3>1. UNCHANGED <<version, latest, promoted>> /\ Become(r, Idle)
      BY <2>1 DEF PublishVersion
    <3> QED
      BY <3>1, Quiet DEF Idle, Elsewhere, Steps
  <2> QED
    BY <1>2, <2>1, QuietSteps, LockSafe, DecideSafe, PublishSafe,
       RetireRequestSafe, RetireSafe, TidyRequestSafe, TidyRowSafe,
       TidyLockSafe, TidyDropSafe DEF Ask, Continue
<1> QED
  BY <1>1, <1>2 DEF Next

\* The inductive invariant holds in every reachable state.
THEOREM Invariance == Spec => []IInv
<1>1. Init => IInv
  BY InitTyped, InitSafe DEF IInv
<1>2. IInv /\ [Next]_vars => IInv'
  BY StepTyped, StepSafe DEF IInv, Safe
<1> QED
  BY <1>1, <1>2, PTL DEF Spec

\* Every row and request keeps its type, for any number of sections, versions,
\* enrolments and concurrent requests.
THEOREM TypeCorrect == Spec => []TypeOK
<1>1. IInv => TypeOK
  BY DEF IInv
<1> QED
  BY <1>1, Invariance, PTL

\* Version numbers are unique and there is at most one latest version; until the
\* script promotes an older one, it is there, published, and carries the highest
\* number, however publishes, archivals, prunes and runs of the script overlap.
THEOREM NewestIsLatest == Spec => []LatestIsNewest
<1>1. IInv => LatestIsNewest
  BY DEF IInv, Safe
<1> QED
  BY <1>1, Invariance, PTL

-----------------------------------------------------------------------------
(* Pins *)

\* A version that exists is not written by a step, or is pruned unpinned.
LEMMA PinnedVersionStays ==
  ASSUME TypeOK, [Next]_vars, NEW v \in Existing, v \notin Existing'
  PROVE  Pinned(v) = {}
<1>0. version \in [Versions -> [status : {"none", "PUBLISHED", "ARCHIVED",
                                          "deleted"},
                                number : Nat, manifest : SUBSET Sections]]
  BY DEF TypeOK
<1>1. v \in Versions /\ version' # version
  BY DEF Existing
<1>2. PICK r \in Slots : Ask(r) \/ Continue(r) \/ Crash(r)
  BY <1>1 DEF Next, vars
<1>3. PublishVersion(r) \/ ArchiveVersion(r) \/ PruneVersions(r) \/ TidyDrop(r)
  BY <1>1, <1>2 DEF Ask, Continue, CreateSection, DeleteRequest,
     RestoreRequest, PublishRequest, ArchiveRequest, PruneRequest,
     ToggleRequest, MigrateRequest, FindReferences, RowGone, HideSection,
     RemoveSection, RestoreSection, LockAndBuild, PublishRefused, Decide,
     Toggle, PinRead, Activate, Migrate, Crash, TidyRequest, TidyRow,
     TidyLock, TidyEnds, TidyFails
<1>4. ~PublishVersion(r)
  BY <1>0, <1>1 DEF PublishVersion, FreeRows, Existing
<1>5. ~ArchiveVersion(r)
  <2>1. SUFFICES ASSUME ArchiveVersion(r) PROVE FALSE
    OBVIOUS
  <2> DEFINE w == req[r].version
  <2>2. CASE w \in Existing
    <3>1. version' = [version EXCEPT ![w].status = "ARCHIVED"]
      BY <2>1, <2>2 DEF ArchiveVersion
    <3> HIDE DEF w
    <3> QED
      BY <1>0, <1>1, <3>1 DEF Existing
  <2>3. CASE w \notin Existing
    BY <1>1, <2>1, <2>3 DEF ArchiveVersion
  <2> QED
    BY <2>2, <2>3
<1>6. PruneVersions(r) \/ TidyDrop(r)
  BY <1>3, <1>4, <1>5
<1>7. Deletable(req[r].doomed) /\ v \in req[r].doomed
  BY <1>0, <1>1, <1>6 DEF PruneVersions, TidyDrop, Existing
<1> QED
  BY <1>7 DEF Deletable

\* A pin moves to a version that exists: from none, or by a migration.
LEMMA PinMoved ==
  ASSUME TypeOK, TypeOK', [Next]_vars, NEW e \in Enrolments,
         enrolment'[e].pin # enrolment[e].pin
  PROVE  /\ enrolment'[e].pin \in Existing'
         /\ \/ enrolment[e].pin = Null
            \/ \E r \in Slots : At(r, "repin") /\ req[r].enrolment = e
<1>0. /\ enrolment \in [Enrolments -> [active : BOOLEAN, activated : BOOLEAN,
                                       pin : Versions \cup {Null}]]
      /\ version \in [Versions -> [status : {"none", "PUBLISHED", "ARCHIVED",
                                             "deleted"},
                                   number : Nat, manifest : SUBSET Sections]]
  BY DEF TypeOK
<1>1. enrolment' # enrolment
  OBVIOUS
<1>2. PICK r \in Slots : Ask(r) \/ Continue(r) \/ Crash(r)
  BY <1>1 DEF Next, vars
<1>3. PublishVersion(r) \/ Toggle(r) \/ Activate(r) \/ Migrate(r)
  BY <1>1, <1>2 DEF Ask, Continue, CreateSection, DeleteRequest,
     RestoreRequest, PublishRequest, ArchiveRequest, PruneRequest,
     ToggleRequest, MigrateRequest, FindReferences, RowGone, HideSection,
     RemoveSection, RestoreSection, LockAndBuild, PublishRefused, Decide,
     ArchiveVersion, PruneVersions, PinRead, Crash, TidyRequest, TidyRow,
     TidyLock, TidyEnds, TidyDrop, TidyFails
<1>4. CASE PublishVersion(r)
  <2>1. PICK v \in FreeRows :
       /\ version' = [version EXCEPT ![v] =
            [status |-> "PUBLISHED", number |-> req[r].number,
             manifest |-> req[r].manifest]]
       /\ enrolment' = [x \in Enrolments |->
            IF x \in PinnedByPublish THEN [enrolment[x] EXCEPT !.pin = v]
                                     ELSE enrolment[x]]
    BY <1>1, <1>4 DEF PublishVersion
  <2>2. e \in PinnedByPublish /\ enrolment'[e].pin = v
    BY <1>0, <2>1
  <2>3. v \in Existing'
    BY <1>0, <2>1 DEF FreeRows, Existing
  <2> QED
    BY <2>2, <2>3 DEF PinnedByPublish
<1>5. ~Toggle(r)
  <2>1. SUFFICES ASSUME Toggle(r) PROVE FALSE
    OBVIOUS
  <2> DEFINE x == req[r].enrolment
  <2>2. PICK row : /\ row.pin = enrolment[x].pin
                   /\ enrolment' = [enrolment EXCEPT ![x] = row]
    BY <2>1 DEF Toggle
  <2> QED
    BY <1>0, <2>2
<1>6. CASE Activate(r)
  <2> DEFINE x == req[r].enrolment
             v == req[r].version
  <2>1. v = Null \/ v \in Existing
    BY <1>1, <1>6 DEF Activate
  <2>2. PICK row :
          /\ row.pin = IF enrolment[x].pin = Null THEN v ELSE enrolment[x].pin
          /\ enrolment' = [enrolment EXCEPT ![x] = row]
    BY <1>6, <2>1 DEF Activate
  <2>3. x = e /\ enrolment'[e].pin = v /\ enrolment[e].pin = Null
    BY <1>0, <2>2
  <2>4. v \in Existing'
    BY <1>6, <2>1, <2>3 DEF Activate, Existing
  <2> QED
    BY <2>3, <2>4
<1>7. CASE Migrate(r)
  <2> DEFINE x == req[r].enrolment
             v == req[r].version
  <2>1. v \in Existing /\ enrolment' = [enrolment EXCEPT ![x].pin = v]
    BY <1>1, <1>7 DEF Migrate
  <2>2. x = e /\ enrolment'[e].pin = v
    BY <1>0, <2>1
  <2>3. v \in Existing'
    BY <1>7, <2>1 DEF Migrate, Existing
  <2> QED
    BY <1>7, <2>2, <2>3 DEF Migrate
<1> QED
  BY <1>3, <1>4, <1>5, <1>6, <1>7

\* A version a learner is pinned to exists: a prune that read it as unused
\* before the pin was set does not delete it.
THEOREM PinsLoad == Spec => []PinsResolve
<1>1. Init => PinsResolve
  BY DEF Init, PinsResolve
<1>2. TypeOK /\ TypeOK' /\ PinsResolve /\ [Next]_vars => PinsResolve'
  <2>1. SUFFICES ASSUME TypeOK, TypeOK', PinsResolve, [Next]_vars,
                        NEW e \in Enrolments, enrolment'[e].pin # Null
                 PROVE  enrolment'[e].pin \in Existing'
    BY DEF PinsResolve
  <2>2. CASE enrolment'[e].pin # enrolment[e].pin
    BY <2>1, <2>2, PinMoved
  <2>3. CASE enrolment'[e].pin = enrolment[e].pin
    <3> DEFINE v == enrolment[e].pin
    <3>1. v \in Existing /\ e \in Pinned(v)
      BY <2>1, <2>3 DEF PinsResolve, Pinned
    <3>2. v \in Existing'
      BY <2>1, <3>1, PinnedVersionStays
    <3> QED
      BY <2>3, <3>2
  <2> QED
    BY <2>2, <2>3
<1> QED
  BY <1>1, <1>2, TypeCorrect, PTL DEF Spec

\* A pin that is set is moved by a migration of that learner and by nothing
\* else, however publishes and activations race.
THEOREM PinsStand == Spec => OnlyMigrationsMovePins
<1> DEFINE Stands ==
      \A e \in Enrolments :
        enrolment[e].pin # Null /\ enrolment'[e].pin # enrolment[e].pin =>
          \E r \in Slots : At(r, "repin") /\ req[r].enrolment = e
<1>1. TypeOK /\ TypeOK' /\ [Next]_vars => [Stands]_vars
  BY PinMoved
<1>2. Spec => [][Stands]_vars
  BY <1>1, TypeCorrect, PTL DEF Spec
<1> QED
  BY <1>2 DEF OnlyMigrationsMovePins
=============================================================================
