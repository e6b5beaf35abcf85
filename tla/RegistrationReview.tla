--------------------------- MODULE RegistrationReview --------------------------
(***************************************************************************)
(* The registration form of one learner on one course: the learner submits   *)
(* it, an adviser approves, rejects or keeps it pending, or sends it back,    *)
(* and the learner resubmits.  Nothing locks the row: every write is          *)
(* conditional on the row the decision was based on.                          *)
(*                                                                          *)
(* A browser tab is a process, from the page it shows to the notification of  *)
(* what it did.  Answers and requests are named by the write that made them,  *)
(* so a name stands for the time stamp the code compares.                     *)
(***************************************************************************)
EXTENDS Naturals, FiniteSets

CONSTANTS
  Tabs,        \* pages of the learner
  Advisers,    \* pages of advisers
  Unset,       \* a field a client does not send
  OldClients,  \* some clients do not say what their page showed
  MaxWrites,   \* bound on writes of the row
  MayWipe,     \* an admin resets or unassigns the learner
  MayCrash

Slots == Tabs \cup Advisers

ASSUME RegistrationAssumption ==
  /\ Tabs \cap Advisers = {}
  /\ MaxWrites \in Nat
  /\ Unset \notin Nat
  /\ {OldClients, MayWipe, MayCrash} \subseteq BOOLEAN

VARIABLES
  row,       \* the UserFormCompletion of (learner, course, registration-form)
  open,      \* enrolment usable, and the form part of it
  page,      \* what each tab shows and has read
  keys,      \* dedupe keys of the notification rows
  writes,    \* the time: one tick per write of the row
  newest,    \* history: the answers submitted last
  approved,  \* history: answers an adviser has approved
  wiped      \* history: the row has been deleted

history == <<newest, approved, wiped>>
vars    == <<row, open, page, keys, writes, history>>

Times    == 0 .. MaxWrites
Verdicts == {"Approved", "Pending", "Rejected"}
Statuses == Verdicts \cup {"none"}

\* at is completedAt, request is changesRequested.requestedAt, prevAt its
\* previousCompletedAt, event the last review event, stamp updatedAt; 0 is null.
Row == [exists : BOOLEAN, complete : BOOLEAN, at : Times, answers : Times,
        status : Statuses, request : Times, prevAt : Times, round : Nat,
        event : Times, stamp : Times]
NoRow == [exists |-> FALSE, complete |-> FALSE, at |-> 0, answers |-> 0,
          status |-> "none", request |-> 0, prevAt |-> 0, round |-> 0,
          event |-> 0, stamp |-> 0]

Steps == {"idle", "editing", "submit", "announce", "reviewing", "decide", "return",
          "tell"}
Page  == [pc : Steps, seen : Times \cup {Unset}, shown : Times, old : Row]
Idle  == [pc |-> "idle", seen |-> Unset, shown |-> 0, old |-> NoRow]

At(p, step)       == page[p].pc = step
Become(p, record) == page' = [page EXCEPT ![p] = record]
Goto(p, step)     == page' = [page EXCEPT ![p].pc = step]
Now               == writes + 1
Tick              == writes < MaxWrites /\ writes' = Now

\* What a page sends of what it showed: older clients leave it out.
Sent(value) == {value} \cup IF OldClients THEN {Unset} ELSE {}

\* evaluateRegistrationAccess: the registration lets the learner in.
Unlocked == row.complete /\ row.request = 0 /\ row.status = "Approved"

\* Mutant: an adviser's update is not conditional on the row that was read.
UnchangedSinceAlways(old) == row.exists

\* writeAdvisorUpdate: the row is still the one the decision was based on.
UnchangedSince(old) == row.exists /\ row.stamp = old.stamp

\* A resubmission must also answer the adviser's latest request.
Claimable(old) ==
  /\ row.exists /\ ~row.complete
  /\ old.request # 0 => row.stamp = old.stamp

-----------------------------------------------------------------------------
Init ==
  /\ row = NoRow
  /\ open \in BOOLEAN
  /\ page = [p \in Slots |-> Idle]
  /\ keys = {}
  /\ writes = 0
  /\ newest = 0
  /\ approved = {}
  /\ wiped = FALSE

\* The enrolment is switched on or off or expires; the form is removed from
\* the course or added back.
AdminEdit ==
  /\ open' = ~open
  /\ UNCHANGED <<row, page, keys, writes, history>>

\* A reset or a forced unassignment deletes the row (once: a bound).
Wipe ==
  /\ MayWipe /\ row.exists /\ ~wiped
  /\ row' = NoRow
  /\ newest' = 0
  /\ wiped' = TRUE
  /\ UNCHANGED <<open, page, keys, writes, approved>>

Crash(p) ==
  /\ MayCrash /\ ~At(p, "idle")
  /\ Become(p, Idle)
  /\ UNCHANGED <<row, open, keys, writes, history>>

-----------------------------------------------------------------------------
(* markFormComplete *)

\* The form opens filled in, with the adviser's request if there is one.
OpenForm(p) ==
  /\ At(p, "idle")
  /\ \E seen \in IF row.request = 0 THEN {Unset} ELSE Sent(row.request) :
       Become(p, [Idle EXCEPT !.pc = "editing", !.seen = seen])
  /\ UNCHANGED <<row, open, keys, writes, history>>

\* A completed form is returned as it is; a request the learner has not seen is
\* a conflict.
SubmitRequest(p) ==
  /\ At(p, "editing")
  /\ IF /\ open /\ ~row.complete
        /\ row.request # 0 => page[p].seen \in {Unset, row.request}
     THEN Become(p, [page[p] EXCEPT !.pc = "submit", !.old = row])
     ELSE Become(p, Idle)
  /\ UNCHANGED <<row, open, keys, writes, history>>

\* Mutant: the metadata is stored as posted, the adviser's part included.
SubmissionAsPosted(old) ==
  [exists |-> TRUE, complete |-> TRUE, at |-> Now, answers |-> Now,
   status |-> "Approved", request |-> 0, prevAt |-> 0, round |-> old.round + 1,
   event |-> Now, stamp |-> Now]

\* The learner's part only: the review is dropped, its trail carries over.
Submission(old) ==
  [exists |-> TRUE, complete |-> TRUE, at |-> Now, answers |-> Now,
   status |-> "none", request |-> 0, prevAt |-> 0,
   round |-> IF old.request # 0 THEN old.round + 1 ELSE old.round,
   event |-> IF old.request # 0 THEN Now ELSE old.event, stamp |-> Now]

\* Only the call that turns the row complete announces it.
SubmitWrite(p) ==
  LET old == page[p].old IN
  /\ At(p, "submit")
  /\ IF IF old.exists THEN Claimable(old) ELSE ~row.exists
     THEN /\ Tick
          /\ row' = Submission(old)
          /\ newest' = Now
          /\ Become(p, [Idle EXCEPT !.pc = "announce", !.old = Submission(old)])
     ELSE Become(p, Idle) /\ UNCHANGED <<row, writes, newest>>
  /\ UNCHANGED <<open, keys, approved, wiped>>

\* Mutant: a resubmission is announced under the key of the first submission.
SubmittedKeyPlain(submission) == <<"submitted", 0>>

\* registration-submitted:...:r<round>
SubmittedKey(submission) == <<"submitted", submission.round>>

\* A key that exists inserts nothing and mails nobody.
AnnounceSubmission(p) ==
  /\ At(p, "announce")
  /\ keys' = keys \cup {SubmittedKey(page[p].old)}
  /\ Become(p, Idle)
  /\ UNCHANGED <<row, open, writes, newest, approved, wiped>>

-----------------------------------------------------------------------------
(* updateFormMetadata and requestFormChanges *)

\* The page shows a submission and the time it was completed (null if sent back).
OpenReview(p) ==
  /\ At(p, "idle") /\ row.exists
  /\ \E seen \in Sent(row.at) :
       Become(p, [Idle EXCEPT !.pc = "reviewing", !.shown = row.answers,
                              !.seen = seen])
  /\ UNCHANGED <<row, open, keys, writes, history>>

\* Mutant: the time of the submission that was looked at is ignored.
SubmissionUnchangedAlways(p) == TRUE

\* assertSubmissionUnchanged
SubmissionUnchanged(p) == page[p].seen \in {Unset, row.at}

\* The verdict is an input of the request; it is chosen when it is used.
ReviewRequest(p) ==
  /\ At(p, "reviewing")
  /\ IF row.exists /\ SubmissionUnchanged(p)
     THEN Become(p, [page[p] EXCEPT !.pc = "decide", !.old = row])
     ELSE Become(p, Idle)
  /\ UNCHANGED <<row, open, keys, writes, history>>

\* Sending back is refused when the learner could not submit again.
SendBackRequest(p) ==
  /\ At(p, "reviewing")
  /\ IF row.exists /\ (row.complete \/ row.request # 0) /\ SubmissionUnchanged(p)
        /\ open
     THEN Become(p, [page[p] EXCEPT !.pc = "return", !.old = row])
     ELSE Become(p, Idle)
  /\ UNCHANGED <<row, open, keys, writes, history>>

\* Deciding on a form that was sent back withdraws the request: the original
\* submission stands again.
Reviewed(old, verdict) ==
  IF old.request = 0
  THEN [old EXCEPT !.status = verdict, !.stamp = Now]
  ELSE [old EXCEPT !.status = verdict, !.stamp = Now, !.complete = TRUE,
                   !.at = old.prevAt, !.request = 0, !.prevAt = 0, !.event = Now]

\* Sending back again only updates the request.
SentBack(old) ==
  [old EXCEPT !.complete = FALSE, !.at = 0, !.status = "Pending",
              !.request = Now, !.event = Now, !.stamp = Now,
              !.prevAt = IF old.request # 0 THEN @ ELSE old.at]

\* The write of an adviser, or a conflict.
AdviserWrite(p, written) ==
  /\ IF UnchangedSince(page[p].old)
     THEN /\ Tick
          /\ row' = written
          /\ Become(p, [page[p] EXCEPT !.pc = "tell", !.old = written])
     ELSE Become(p, Idle) /\ UNCHANGED <<row, writes>>
  /\ UNCHANGED <<open, keys, newest, wiped>>

\* The answers are those stored, never taken from the page.  Leaving a form that
\* was sent back pending is refused.
DecideWrite(p) ==
  LET old == page[p].old IN
  /\ At(p, "decide")
  /\ \E verdict \in IF old.request = 0 THEN Verdicts ELSE Verdicts \ {"Pending"} :
       /\ AdviserWrite(p, Reviewed(old, verdict))
       /\ approved' = IF verdict = "Approved" /\ UnchangedSince(old)
                      THEN approved \cup {old.answers} ELSE approved

ReturnWrite(p) ==
  /\ At(p, "return")
  /\ AdviserWrite(p, SentBack(page[p].old))
  /\ UNCHANGED approved

\* The same decision again is not news; after a review event it is.
DecisionKey(written) ==
  IF written.request # 0 THEN <<"changes", written.request>>
                         ELSE <<written.status, written.event>>

TellLearner(p) ==
  /\ At(p, "tell")
  /\ keys' = keys \cup {DecisionKey(page[p].old)}
  /\ Become(p, Idle)
  /\ UNCHANGED <<row, open, writes, newest, approved, wiped>>

-----------------------------------------------------------------------------
Next ==
  \/ AdminEdit \/ Wipe
  \/ \E p \in Slots : Crash(p)
  \/ \E p \in Tabs :
       OpenForm(p) \/ SubmitRequest(p) \/ SubmitWrite(p) \/ AnnounceSubmission(p)
  \/ \E p \in Advisers :
       \/ OpenReview(p) \/ ReviewRequest(p) \/ SendBackRequest(p)
       \/ DecideWrite(p) \/ ReturnWrite(p) \/ TellLearner(p)

Spec == Init /\ [][Next]_vars

-----------------------------------------------------------------------------
(* Properties *)

\* Every variable has its type.
TypeOK ==
  /\ row \in Row
  /\ open \in BOOLEAN
  /\ page \in [Slots -> Page]
  /\ keys \subseteq (Statuses \cup {"submitted", "changes"}) \X Nat
  /\ writes \in Times
  /\ newest \in Times
  /\ approved \subseteq Times
  /\ wiped \in BOOLEAN

\* No submission is lost: the answers on file are the last ones submitted, and
\* the row is incomplete for exactly as long as a request for changes is on it,
\* which remembers the completion to restore (ChangesRequest, writeAdvisorUpdate:
\* a resubmission or another adviser's save is never silently overwritten).
NewestStands ==
  row.exists =>
    /\ row.answers = newest
    /\ row.complete <=> row.request = 0
    /\ IF row.complete THEN row.at = newest
                       ELSE row.at = 0 /\ row.prevAt = newest

\* The registration lets the learner in only on answers that an adviser has
\* approved: a review never carries over to a resubmission (markFormComplete,
\* evaluateRegistrationAccess).
UnlockedIsApproved == Unlocked => row.answers \in approved

\* An adviser whose page showed a submission decides on that submission and no
\* other, and a learner whose page showed a request answers that request
\* (submissionCompletedAt, seenChangesRequestedAt).
Informed ==
  [][/\ \A p \in Advisers :
          page[p].pc \in {"decide", "return"} /\ page'[p].pc = "tell"
            /\ page[p].seen \notin {Unset, 0} => row.answers = page[p].shown
     /\ \A p \in Tabs :
          At(p, "submit") /\ page'[p].pc = "announce" /\ row.exists
            /\ page[p].seen # Unset => row.request = page[p].seen]_vars

\* While the row lives, every submission is news to the admins: its
\* notification carries a key that no earlier one had (notifyRegistration-
\* SubmittedIfV2: each resubmission needs its own, or nobody would hear of it).
EverySubmissionIsNews ==
  ~wiped => \A p \in Tabs :
    At(p, "announce") => SubmittedKey(page[p].old) \notin keys

\* docs/registration-form-v2-backend-handoff.md, 8.4: a decision whose page
\* showed another submission, or none, is refused.  It is not when the form was
\* sent back twice: both pages show no completion time.
AlwaysInformed ==
  [][\A p \in Advisers :
       page[p].pc \in {"decide", "return"} /\ page'[p].pc = "tell"
            /\ page[p].seen # Unset
         => row.answers = page[p].shown]_vars

\* The same document, section 7: the learner is told of every decision.  A
\* decision that changes the status is sent under a key that is not used up.
EveryDecisionIsNews ==
  [][\A p \in Advisers :
       At(p, "decide") /\ page'[p].pc = "tell" /\ row'.status # row.status
         => DecisionKey(row') \notin keys]_vars
=============================================================================
