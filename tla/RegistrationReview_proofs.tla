----------------------- MODULE RegistrationReview_proofs -----------------------
(***************************************************************************)
(* Type correctness of RegistrationReview, and that neither side of a review *)
(* ever overwrites what the other has not seen: no submission is lost, a      *)
(* review never carries over, every submission is news, for any number of     *)
(* pages, older clients and a deleted row included.                           *)
(*                                                                           *)
(* The argument: a row that carries the time stamp a page has read is the row *)
(* the page has read (Snapshots), for every write takes a new stamp.  So a    *)
(* conditional write replaces the row it was decided on, and what holds of    *)
(* the row at the read holds at the write.                                    *)
(***************************************************************************)
EXTENDS RegistrationReview, TLAPS

Deciding(p) == page[p].pc \in {"decide", "return"}

\* The stamp on the row is the last one taken.
Stamped ==
  IF row.exists THEN row.stamp # 0 /\ row.stamp <= writes ELSE row = NoRow

\* What a page has read is the row, or an older row.
Snapshot(p) ==
  At(p, "submit") \/ Deciding(p) =>
    LET old == page[p].old IN
    /\ old.stamp <= writes
    /\ old.exists /\ row.exists /\ row.stamp = old.stamp => row = old

\* A submission starts from no row, or answers a request.
Submitting(p) ==
  At(p, "submit") =>
    LET old == page[p].old IN
    IF old.exists THEN /\ ~old.complete /\ old.request # 0
                       /\ page[p].seen \in {Unset, old.request}
                  ELSE old = NoRow

\* An adviser has read a row whose completion time their page showed.
Reviewing(p) ==
  /\ page[p].pc \in {"reviewing", "decide", "return"} /\ page[p].seen # Unset
       => page[p].seen \in {0, page[p].shown}
  /\ Deciding(p) => /\ page[p].old.exists
                    /\ page[p].seen \in {Unset, page[p].old.at}

Fresh(p) == Snapshot(p) /\ Submitting(p) /\ Reviewing(p)

Safe == /\ Stamped
        /\ \A p \in Slots : Fresh(p)
        /\ NewestStands /\ UnlockedIsApproved
IInv == TypeOK /\ Safe

\* The keys used, and the submissions still to be announced.
KeysOld    == \A n \in Nat : <<"submitted", n>> \in keys => row.exists /\ n <= row.round
Pending(p) ==
  At(p, "announce") => /\ row.exists /\ page[p].old.round <= row.round
                       /\ SubmittedKey(page[p].old) \notin keys
Apart(p, q) ==
  At(p, "announce") /\ At(q, "announce") /\ p # q
    => page[p].old.round # page[q].old.round
Rounds ==
  ~wiped => /\ KeysOld
            /\ \A p \in Slots : Pending(p)
            /\ \A p, q \in Slots : Apart(p, q)

-----------------------------------------------------------------------------
(* Type correctness *)

\* A replaced page leaves the other pages alone.
LEMMA BecomeTyped ==
  ASSUME TypeOK, NEW p \in Slots, NEW record \in Page, Become(p, record)
  PROVE  /\ page' \in [Slots -> Page]
         /\ page'[p] = record
         /\ \A q \in Slots \ {p} : page'[q] = page[q]
  BY DEF TypeOK, Become

\* Zero is a time, and the time after a tick is one.
LEMMA TimesTyped ==
  /\ 0 \in Times
  /\ TypeOK /\ Tick => Now \in Times /\ Now # 0 /\ Now > writes
  BY RegistrationAssumption DEF Times, TypeOK, Tick, Now

\* An idle page and an absent row are well formed.
LEMMA IdleTyped == NoRow \in Row /\ Idle \in Page
  BY TimesTyped DEF NoRow, Row, Idle, Page, Steps, Statuses, Verdicts

\* A row built from a well-formed row is well formed.
LEMMA RowsTyped ==
  ASSUME TypeOK, Tick, NEW old \in Row, NEW verdict \in Verdicts
  PROVE  Submission(old) \in Row /\ Reviewed(old, verdict) \in Row
         /\ SentBack(old) \in Row
<1>1. Now \in Times /\ 0 \in Times
  BY TimesTyped
<1>2. old.round + 1 \in Nat
  BY DEF Row
<1>3. Submission(old) \in Row
  BY <1>1, <1>2 DEF Submission, Row, Statuses
<1>4. Reviewed(old, verdict) \in Row
  BY <1>1 DEF Reviewed, Row, Statuses
<1>5. SentBack(old) \in Row
  BY <1>1 DEF SentBack, Row, Statuses, Verdicts
<1> QED
  BY <1>3, <1>4, <1>5

\* The initial state is well typed.
LEMMA InitTyped == Init => TypeOK
  BY IdleTyped, TimesTyped DEF Init, TypeOK, Statuses

\* What the page of a slot becomes is well formed, and so is the row.
LEMMA StepTyped == TypeOK /\ [Next]_vars => TypeOK'
<1> SUFFICES ASSUME TypeOK, [Next]_vars PROVE TypeOK'
  OBVIOUS
<1> USE DEF history
<1>1. CASE AdminEdit
  BY <1>1 DEF AdminEdit, TypeOK
<1>2. CASE Wipe
  BY <1>2, IdleTyped, TimesTyped DEF Wipe, TypeOK
<1>3. ASSUME NEW p \in Slots, Crash(p) PROVE TypeOK'
  BY <1>3, IdleTyped, BecomeTyped DEF Crash, TypeOK
<1>4. ASSUME NEW p \in Slots, OpenForm(p) PROVE TypeOK'
  <2>1. PICK seen \in Times \cup {Unset} :
          Become(p, [Idle EXCEPT !.pc = "editing", !.seen = seen])
    BY <1>4 DEF OpenForm, Sent, TypeOK, Row
  <2>2. [Idle EXCEPT !.pc = "editing", !.seen = seen] \in Page
    BY IdleTyped, TimesTyped DEF Idle, Page, Steps
  <2> QED
    BY <1>4, <2>1, <2>2, BecomeTyped DEF OpenForm, TypeOK
<1>5. ASSUME NEW p \in Slots, SubmitRequest(p) PROVE TypeOK'
  <2>1. [page[p] EXCEPT !.pc = "submit", !.old = row] \in Page
    BY DEF TypeOK, Page, Steps
  <2>2. PICK record \in Page : Become(p, record)
    BY <1>5, <2>1, IdleTyped DEF SubmitRequest
  <2> QED
    BY <1>5, <2>2, BecomeTyped DEF SubmitRequest, TypeOK
<1>6. ASSUME NEW p \in Slots, SubmitWrite(p) PROVE TypeOK'
  <2> DEFINE old == page[p].old
  <2>1. old \in Row
    BY DEF TypeOK, Page
  <2>2. CASE Tick /\ row' = Submission(old) /\ newest' = Now
             /\ Become(p, [Idle EXCEPT !.pc = "announce", !.old = Submission(old)])
    <3>1. Submission(old) \in Row /\ Now \in Times
      BY <2>1, <2>2, RowsTyped, TimesTyped DEF Verdicts
    <3>2. [Idle EXCEPT !.pc = "announce", !.old = Submission(old)] \in Page
      BY <3>1, IdleTyped, TimesTyped DEF Idle, Page, Steps
    <3> QED
      BY <1>6, <2>2, <3>1, <3>2, BecomeTyped DEF SubmitWrite, TypeOK, Tick
  <2>3. CASE Become(p, Idle) /\ UNCHANGED <<row, writes, newest>>
    BY <1>6, <2>3, IdleTyped, BecomeTyped DEF SubmitWrite, TypeOK
  <2> QED
    BY <1>6, <2>2, <2>3 DEF SubmitWrite
<1>7. ASSUME NEW p \in Slots, AnnounceSubmission(p) PROVE TypeOK'
  <2>1. SubmittedKey(page[p].old) \in (Statuses \cup {"submitted", "changes"}) \X Nat
    BY DEF SubmittedKey, TypeOK, Page, Row
  <2> QED
    BY <1>7, <2>1, IdleTyped, BecomeTyped DEF AnnounceSubmission, TypeOK
<1>8. ASSUME NEW p \in Slots, OpenReview(p) PROVE TypeOK'
  <2>1. PICK seen \in Times \cup {Unset} :
          Become(p, [Idle EXCEPT !.pc = "reviewing", !.shown = row.answers,
                                 !.seen = seen])
    BY <1>8 DEF OpenReview, Sent, TypeOK, Row
  <2>2. [Idle EXCEPT !.pc = "reviewing", !.shown = row.answers,
                     !.seen = seen] \in Page
    BY IdleTyped, TimesTyped DEF Idle, Page, Steps, TypeOK, Row
  <2> QED
    BY <1>8, <2>1, <2>2, BecomeTyped DEF OpenReview, TypeOK
<1>9. ASSUME NEW p \in Slots, ReviewRequest(p) \/ SendBackRequest(p) PROVE TypeOK'
  <2>1. \A step \in {"decide", "return"} :
          [page[p] EXCEPT !.pc = step, !.old = row] \in Page
    BY DEF TypeOK, Page, Steps
  <2>2. PICK record \in Page : Become(p, record)
    BY <1>9, <2>1, IdleTyped DEF ReviewRequest, SendBackRequest
  <2> QED
    BY <1>9, <2>2, BecomeTyped DEF ReviewRequest, SendBackRequest, TypeOK
<1>10. ASSUME NEW p \in Slots, NEW written, AdviserWrite(p, written),
              Tick => written \in Row, approved' \subseteq Times
       PROVE  TypeOK'
  <2>1. CASE Tick /\ row' = written
             /\ Become(p, [page[p] EXCEPT !.pc = "tell", !.old = written])
    <3>1. [page[p] EXCEPT !.pc = "tell", !.old = written] \in Page
      BY <1>10, <2>1 DEF TypeOK, Page, Steps
    <3>2. Now \in Times
      BY <2>1, TimesTyped
    <3> QED
      BY <1>10, <2>1, <3>1, <3>2, BecomeTyped DEF AdviserWrite, TypeOK, Tick
  <2>2. CASE Become(p, Idle) /\ UNCHANGED <<row, writes>>
    BY <1>10, <2>2, IdleTyped, BecomeTyped DEF AdviserWrite, TypeOK
  <2> QED
    BY <1>10, <2>1, <2>2 DEF AdviserWrite
<1>11. ASSUME NEW p \in Slots, DecideWrite(p) PROVE TypeOK'
  <2>1. page[p].old \in Row /\ page[p].old.answers \in Times
    BY DEF TypeOK, Page, Row
  <2>2. PICK verdict \in Verdicts :
          /\ AdviserWrite(p, Reviewed(page[p].old, verdict))
          /\ approved' \subseteq approved \cup {page[p].old.answers}
    BY <1>11 DEF DecideWrite
  <2>3. approved' \subseteq Times
    BY <2>1, <2>2 DEF TypeOK
  <2> QED
    BY <1>10, <2>1, <2>2, <2>3, RowsTyped
<1>12. ASSUME NEW p \in Slots, ReturnWrite(p) PROVE TypeOK'
  <2>1. page[p].old \in Row
    BY DEF TypeOK, Page
  <2>2. Tick => SentBack(page[p].old) \in Row
    BY <2>1, RowsTyped DEF Verdicts
  <2> QED
    BY <1>10, <1>12, <2>2 DEF ReturnWrite, TypeOK
<1>13. ASSUME NEW p \in Slots, TellLearner(p) PROVE TypeOK'
  <2>1. DecisionKey(page[p].old) \in (Statuses \cup {"submitted", "changes"}) \X Nat
    BY DEF DecisionKey, TypeOK, Page, Row, Times
  <2> QED
    BY <1>13, <2>1, IdleTyped, BecomeTyped DEF TellLearner, TypeOK
<1>14. CASE UNCHANGED vars
  BY <1>14 DEF vars, TypeOK
<1> QED
  BY <1>1, <1>2, <1>3, <1>4, <1>5, <1>6, <1>7, <1>8, <1>9, <1>11, <1>12, <1>13,
     <1>14 DEF Next, Slots

\* Every state of RegistrationReview is well typed.
THEOREM TypeCorrect == Spec => []TypeOK
  BY InitTyped, StepTyped, PTL DEF Spec

-----------------------------------------------------------------------------
(* The row a write is based on *)

\* A step that leaves the row alone is safe when the page it moves is.
LEMMA QuietStep ==
  ASSUME IInv, NEW p \in Slots, NEW record \in Page, Become(p, record),
         UNCHANGED <<row, writes, newest, approved>>, Fresh(p)'
  PROVE  Safe'
<1>1. page' \in [Slots -> Page] /\ \A q \in Slots \ {p} : page'[q] = page[q]
  BY BecomeTyped DEF IInv
<1>2. ASSUME NEW q \in Slots PROVE Fresh(q)'
  <2>1. CASE q = p
    BY <2>1
  <2>2. CASE q # p
    BY <1>1, <2>2 DEF IInv, Safe, Fresh, Snapshot, Submitting, Reviewing, At, Deciding
  <2> QED
    BY <2>1, <2>2
<1>3. Stamped' /\ NewestStands' /\ UnlockedIsApproved'
  BY DEF IInv, Safe, Stamped, NewestStands, UnlockedIsApproved, Unlocked
<1> QED
  BY <1>2, <1>3 DEF Safe

\* A page that returns to idle is safe.
LEMMA IdleFresh ==
  ASSUME IInv, NEW p \in Slots, Become(p, Idle)
  PROVE  Fresh(p)'
<1>1. page'[p] = Idle
  BY IdleTyped, BecomeTyped DEF IInv
<1> QED
  BY <1>1 DEF Fresh, Snapshot, Submitting, Reviewing, At, Deciding, Idle

\* A write takes a new stamp, so that no page mistakes the row for the one it
\* has read.
LEMMA WriteStep ==
  ASSUME IInv, NEW p \in Slots, NEW record \in Page, Become(p, record),
         record.pc \in {"announce", "tell"}, Tick,
         row'.exists, row'.stamp = Now
  PROVE  Stamped' /\ \A q \in Slots : Fresh(q)'
<1>1. page'[p] = record /\ \A q \in Slots \ {p} : page'[q] = page[q]
  BY BecomeTyped DEF IInv
<1>2. Now \in Times /\ Now # 0 /\ Now > writes /\ writes' = Now
  BY TimesTyped DEF IInv, Tick
<1>3. Stamped'
  BY <1>2 DEF Stamped, Times
<1>4. ASSUME NEW q \in Slots PROVE Fresh(q)'
  <2>1. CASE q = p
    BY <1>1, <2>1 DEF Fresh, Snapshot, Submitting, Reviewing, At, Deciding
  <2>2. CASE q # p
    <3>1. page'[q] = page[q] /\ Fresh(q) /\ writes \in Nat
          /\ page[q].old.stamp \in Nat
      BY <1>1, <2>2 DEF IInv, Safe, TypeOK, Page, Row, Times
    <3>2. Submitting(q)' /\ Reviewing(q)'
      BY <3>1 DEF Fresh, Submitting, Reviewing, At, Deciding
    <3>3. Snapshot(q)'
      BY <1>2, <3>1 DEF Fresh, Snapshot, At, Deciding, Times
    <3> QED
      BY <3>2, <3>3 DEF Fresh
  <2> QED
    BY <2>1, <2>2
<1> QED
  BY <1>3, <1>4

\* A submission that is written starts from no row, or from the row as it is,
\* and answers the request on it.
LEMMA SubmitBase ==
  ASSUME IInv, NEW p \in Slots, At(p, "submit"),
         IF page[p].old.exists THEN Claimable(page[p].old) ELSE ~row.exists
  PROVE  row = page[p].old
<1>1. Snapshot(p) /\ Submitting(p) /\ Stamped
  BY DEF IInv, Safe, Fresh
<1> QED
  BY <1>1 DEF Snapshot, Submitting, Stamped, Claimable

\* An adviser who writes replaces the row that was read.
LEMMA AdviserBase ==
  ASSUME IInv, NEW p \in Slots, Deciding(p), UnchangedSince(page[p].old)
  PROVE  row = page[p].old
  BY DEF IInv, Safe, Fresh, Snapshot, Reviewing, UnchangedSince

-----------------------------------------------------------------------------
(* Safety *)

\* The initial state is safe.
LEMMA InitSafe == Init => Safe
  BY DEF Init, Safe, Fresh, Snapshot, Submitting, Reviewing, At, Deciding, Stamped,
     NewestStands, UnlockedIsApproved, Unlocked, NoRow, Idle

\* An adviser's write is safe when the row it makes of the row read is.
LEMMA AdviserSafe ==
  ASSUME IInv, NEW p \in Slots, Deciding(p), NEW written, AdviserWrite(p, written),
         Tick => written \in Row /\ written.exists /\ written.stamp = Now,
         approved \subseteq approved',
         UnchangedSince(page[p].old) \/ approved' = approved,
         row = page[p].old /\ row' = written /\ newest' = newest /\ Tick
           => NewestStands' /\ UnlockedIsApproved'
  PROVE  Safe'
<1>1. CASE UnchangedSince(page[p].old)
  <2>1. /\ Tick /\ row' = written /\ row = page[p].old
        /\ Become(p, [page[p] EXCEPT !.pc = "tell", !.old = written])
    BY <1>1, AdviserBase DEF AdviserWrite
  <2>2. [page[p] EXCEPT !.pc = "tell", !.old = written] \in Page
    BY <2>1 DEF IInv, TypeOK, Page, Steps
  <2>3. [page[p] EXCEPT !.pc = "tell", !.old = written].pc = "tell"
    BY DEF IInv, TypeOK, Page
  <2>4. Stamped' /\ \A q \in Slots : Fresh(q)'
    BY <2>1, <2>2, <2>3, WriteStep
  <2>5. newest' = newest
    BY DEF AdviserWrite
  <2> QED
    BY <2>1, <2>4, <2>5 DEF Safe
<1>2. CASE ~UnchangedSince(page[p].old)
  BY <1>2, IdleFresh, IdleTyped, QuietStep DEF AdviserWrite
<1> QED
  BY <1>1, <1>2

\* Every step keeps the row the last submission, and a review on it.
LEMMA StepSafe == IInv /\ [Next]_vars => Safe'
<1> SUFFICES ASSUME IInv, [Next]_vars PROVE Safe'
  OBVIOUS
<1> USE DEF history
<1>1. CASE AdminEdit \/ UNCHANGED vars
  BY <1>1 DEF AdminEdit, vars, IInv, Safe, Stamped, Fresh, Snapshot, Submitting,
     Reviewing, At, Deciding, NewestStands, UnlockedIsApproved, Unlocked
<1>2. CASE Wipe
  <2>1. row' = NoRow /\ ~row'.exists /\ ~row'.complete
    BY <1>2 DEF Wipe, NoRow
  <2>2. Stamped' /\ NewestStands' /\ UnlockedIsApproved'
    BY <2>1 DEF Stamped, NewestStands, UnlockedIsApproved, Unlocked
  <2>3. \A q \in Slots : Fresh(q)'
    BY <1>2, <2>1 DEF Wipe, IInv, Safe, Fresh, Snapshot, Submitting, Reviewing, At,
       Deciding
  <2> QED
    BY <2>2, <2>3 DEF Safe
<1>3. ASSUME NEW p \in Slots, Crash(p) PROVE Safe'
  BY <1>3, IdleTyped, IdleFresh, QuietStep DEF Crash
<1>4. ASSUME NEW p \in Slots, OpenForm(p) PROVE Safe'
  <2>1. PICK seen \in Times \cup {Unset} :
          Become(p, [Idle EXCEPT !.pc = "editing", !.seen = seen])
    BY <1>4 DEF OpenForm, Sent, IInv, TypeOK, Row
  <2>2. [Idle EXCEPT !.pc = "editing", !.seen = seen] \in Page
    BY IdleTyped, TimesTyped DEF Idle, Page, Steps
  <2>3. page'[p].pc = "editing"
    BY <2>1, <2>2, BecomeTyped DEF IInv, Idle
  <2>4. Fresh(p)'
    BY <2>3 DEF Fresh, Snapshot, Submitting, Reviewing, At, Deciding
  <2> QED
    BY <1>4, <2>1, <2>2, <2>4, QuietStep DEF OpenForm
<1>5. ASSUME NEW p \in Slots, SubmitRequest(p) PROVE Safe'
  <2> DEFINE record == [page[p] EXCEPT !.pc = "submit", !.old = row]
  <2>1. record \in Page
    BY DEF IInv, TypeOK, Page, Steps
  <2>2. CASE Become(p, Idle)
    BY <1>5, <2>2, IdleTyped, IdleFresh, QuietStep DEF SubmitRequest
  <2>3. CASE /\ Become(p, record) /\ ~row.complete
             /\ row.request # 0 => page[p].seen \in {Unset, row.request}
    <3>1. page'[p] = record
      BY <2>1, <2>3, BecomeTyped DEF IInv
    <3>2. page'[p].pc = "submit" /\ page'[p].old = row
          /\ page'[p].seen = page[p].seen
      BY <3>1 DEF IInv, TypeOK, Page
    <3>3. row' = row /\ writes' = writes
      BY <1>5 DEF SubmitRequest
    <3>4. row.stamp <= writes
      BY DEF IInv, Safe, Stamped, NoRow, TypeOK, Times
    <3>5. Submitting(p)'
      BY <2>3, <3>2, <3>3 DEF Submitting, At, IInv, Safe, Stamped, NewestStands
    <3>6. Snapshot(p)' /\ Reviewing(p)'
      BY <3>2, <3>3, <3>4 DEF Snapshot, Reviewing, At, Deciding
    <3>7. Fresh(p)'
      BY <3>5, <3>6 DEF Fresh
    <3> QED
      BY <1>5, <2>1, <2>3, <3>7, QuietStep DEF SubmitRequest
  <2> QED
    BY <1>5, <2>2, <2>3 DEF SubmitRequest
<1>6. ASSUME NEW p \in Slots, SubmitWrite(p) PROVE Safe'
  <2> DEFINE old == page[p].old
             record == [Idle EXCEPT !.pc = "announce", !.old = Submission(old)]
  <2>1. CASE /\ Tick /\ row' = Submission(old) /\ newest' = Now
             /\ Become(p, record)
    <3>1. Submission(old) \in Row
      BY <2>1, RowsTyped DEF IInv, TypeOK, Page, Verdicts
    <3>2. record \in Page /\ record.pc = "announce"
      BY <3>1, IdleTyped, TimesTyped DEF Idle, Page, Steps
    <3>3. /\ row'.exists /\ row'.stamp = Now /\ row'.complete /\ row'.at = Now
          /\ row'.answers = Now /\ row'.request = 0 /\ row'.status = "none"
      BY <2>1 DEF Submission
    <3>4. Stamped' /\ \A q \in Slots : Fresh(q)'
      BY <2>1, <3>2, <3>3, WriteStep
    <3>5. NewestStands' /\ UnlockedIsApproved'
      BY <2>1, <3>3 DEF NewestStands, UnlockedIsApproved, Unlocked
    <3> QED
      BY <3>4, <3>5 DEF Safe
  <2>2. CASE Become(p, Idle) /\ UNCHANGED <<row, writes, newest>>
    BY <1>6, <2>2, IdleTyped, IdleFresh, QuietStep DEF SubmitWrite
  <2> QED
    BY <1>6, <2>1, <2>2 DEF SubmitWrite
<1>7. ASSUME NEW p \in Slots, AnnounceSubmission(p) \/ TellLearner(p) PROVE Safe'
  BY <1>7, IdleTyped, IdleFresh, QuietStep DEF AnnounceSubmission, TellLearner
<1>8. ASSUME NEW p \in Slots, OpenReview(p) PROVE Safe'
  <2>1. PICK seen \in {Unset, row.at} :
          Become(p, [Idle EXCEPT !.pc = "reviewing", !.shown = row.answers,
                                 !.seen = seen])
    BY <1>8 DEF OpenReview, Sent
  <2>2. [Idle EXCEPT !.pc = "reviewing", !.shown = row.answers,
                     !.seen = seen] \in Page
    BY IdleTyped, TimesTyped DEF Idle, Page, Steps, IInv, TypeOK, Row
  <2>3. page'[p].pc = "reviewing" /\ page'[p].seen = seen
        /\ page'[p].shown = row.answers
    BY <2>1, <2>2, BecomeTyped DEF IInv, Idle
  <2>4. row.at \in {0, row.answers}
    BY <1>8 DEF OpenReview, IInv, Safe, NewestStands
  <2>5. Fresh(p)'
    BY <2>3, <2>4 DEF Fresh, Snapshot, Submitting, Reviewing, At, Deciding
  <2> QED
    BY <1>8, <2>1, <2>2, <2>5, QuietStep DEF OpenReview
<1>9. ASSUME NEW p \in Slots, ReviewRequest(p) \/ SendBackRequest(p) PROVE Safe'
  <2>1. CASE Become(p, Idle)
    BY <1>9, <2>1, IdleTyped, IdleFresh, QuietStep DEF ReviewRequest, SendBackRequest
  <2>2. ASSUME NEW step \in {"decide", "return"}, row.exists,
               SubmissionUnchanged(p), At(p, "reviewing"),
               Become(p, [page[p] EXCEPT !.pc = step, !.old = row])
        PROVE  Safe'
    <3>1. [page[p] EXCEPT !.pc = step, !.old = row] \in Page
      BY DEF IInv, TypeOK, Page, Steps
    <3>2. page'[p] = [page[p] EXCEPT !.pc = step, !.old = row]
      BY <2>2, <3>1, BecomeTyped DEF IInv
    <3>3. /\ page'[p].pc = step /\ page'[p].old = row
          /\ page'[p].seen = page[p].seen /\ page'[p].shown = page[p].shown
      BY <3>2 DEF IInv, TypeOK, Page
    <3>4. row' = row /\ writes' = writes
      BY <1>9 DEF ReviewRequest, SendBackRequest
    <3>5. row.stamp <= writes
      BY <2>2 DEF IInv, Safe, Stamped
    <3>6. Reviewing(p)'
      BY <2>2, <3>3, <3>4 DEF Reviewing, At, Deciding, SubmissionUnchanged, IInv,
         Safe, Fresh
    <3>7. Fresh(p)'
      BY <3>3, <3>4, <3>5, <3>6 DEF Fresh, Snapshot, Submitting, At
    <3> QED
      BY <1>9, <2>2, <3>1, <3>7, QuietStep DEF ReviewRequest, SendBackRequest
  <2> QED
    BY <1>9, <2>1, <2>2 DEF ReviewRequest, SendBackRequest
<1>10. ASSUME NEW p \in Slots, DecideWrite(p) PROVE Safe'
  <2> DEFINE old == page[p].old
  <2>1. Deciding(p) /\ old \in Row /\ old.exists
    BY <1>10 DEF DecideWrite, At, Deciding, IInv, Safe, Fresh, Reviewing, TypeOK, Page
  <2>2. PICK verdict \in Verdicts :
          /\ AdviserWrite(p, Reviewed(old, verdict))
          /\ approved' = IF verdict = "Approved" /\ UnchangedSince(old)
                         THEN approved \cup {old.answers} ELSE approved
    BY <1>10 DEF DecideWrite
  <2> DEFINE written == Reviewed(old, verdict)
  <2>3. Tick => written \in Row /\ written.exists /\ written.stamp = Now
    BY <2>1, RowsTyped DEF IInv, Reviewed, Row
  <2>4. /\ written.answers = old.answers /\ written.status = verdict
        /\ written.exists /\ written.request = 0
        /\ IF old.request = 0
           THEN written.complete = old.complete /\ written.at = old.at
           ELSE written.complete /\ written.at = old.prevAt
    BY <2>1 DEF Reviewed, Row
  <2>5. ASSUME row = old, row' = written, newest' = newest, Tick
        PROVE  NewestStands' /\ UnlockedIsApproved'
    <3>1. NewestStands'
      BY <2>1, <2>4, <2>5 DEF NewestStands, IInv, Safe, Row
    <3>2. verdict = "Approved" => UnchangedSince(old)
      BY <2>1, <2>5 DEF UnchangedSince
    <3>3. UnlockedIsApproved'
      BY <2>2, <2>4, <2>5, <3>2 DEF UnlockedIsApproved, Unlocked
    <3> QED
      BY <3>1, <3>3
  <2> QED
    BY <2>1, <2>2, <2>3, <2>5, AdviserSafe
<1>11. ASSUME NEW p \in Slots, ReturnWrite(p) PROVE Safe'
  <2> DEFINE old     == page[p].old
             written == SentBack(old)
  <2>1. Deciding(p) /\ old \in Row /\ old.exists
    BY <1>11 DEF ReturnWrite, At, Deciding, IInv, Safe, Fresh, Reviewing, TypeOK, Page
  <2>2. /\ ~written.complete /\ written.at = 0 /\ written.status = "Pending"
        /\ written.request = Now /\ written.stamp = Now
        /\ written.exists /\ written.answers = old.answers
        /\ written.prevAt = IF old.request # 0 THEN old.prevAt ELSE old.at
    BY <2>1 DEF SentBack, Row
  <2>3. Tick => written \in Row
    BY <2>1, RowsTyped DEF IInv, Verdicts
  <2>4. ASSUME row = old, row' = written, newest' = newest, Tick
        PROVE  NewestStands' /\ UnlockedIsApproved'
    <3>1. Now # 0
      BY <2>4, TimesTyped DEF IInv
    <3> QED
      BY <2>1, <2>2, <2>4, <3>1 DEF NewestStands, UnlockedIsApproved, Unlocked, IInv,
         Safe
  <2> QED
    BY <1>11, <2>1, <2>2, <2>3, <2>4, AdviserSafe DEF ReturnWrite
<1> QED
  BY <1>1, <1>2, <1>3, <1>4, <1>5, <1>6, <1>7, <1>8, <1>9, <1>10, <1>11
     DEF Next, Slots

\* The invariant holds in every state.
THEOREM Invariance == Spec => []IInv
<1>1. Init => IInv
  BY InitTyped, InitSafe DEF IInv
<1>2. IInv /\ [Next]_vars => IInv'
  BY StepTyped, StepSafe DEF IInv
<1> QED
  BY <1>1, <1>2, PTL DEF Spec

\* No submission is ever overwritten or lost.
THEOREM NewestKept == Spec => []NewestStands
<1>1. IInv => NewestStands
  BY DEF IInv, Safe
<1> QED
  BY <1>1, Invariance, PTL

\* The registration never lets a learner in on answers nobody approved.
THEOREM UnlockEarned == Spec => []UnlockedIsApproved
<1>1. IInv => UnlockedIsApproved
  BY DEF IInv, Safe
<1> QED
  BY <1>1, Invariance, PTL

-----------------------------------------------------------------------------
(* Informed decisions *)

\* Only a write of its own takes a page to its notification.
LEMMA WhoWrites ==
  ASSUME TypeOK, [Next]_vars, NEW p \in Slots, page'[p].pc # page[p].pc,
         page'[p].pc \in {"tell", "announce"}
  PROVE  \/ page'[p].pc = "announce" /\ SubmitWrite(p)
         \/ page'[p].pc = "tell" /\ (DecideWrite(p) \/ ReturnWrite(p))
<1> USE DEF history
<1>1. ASSUME NEW q \in Slots, NEW record \in Page, Become(q, record),
             record.pc \notin {"tell", "announce"}
      PROVE  FALSE
  BY <1>1, BecomeTyped
<1>2. ASSUME NEW q \in Slots, NEW record \in Page, Become(q, record), q # p
      PROVE  FALSE
  BY <1>2, BecomeTyped
<1>3. ASSUME NEW q \in Slots, Become(q, Idle) PROVE FALSE
  <2>1. Idle.pc = "idle"
    BY DEF Idle
  <2> QED
    BY <1>1, <1>3, <2>1, IdleTyped
<1>4. CASE AdminEdit \/ Wipe \/ UNCHANGED vars
  BY <1>4 DEF AdminEdit, Wipe, vars
<1>5. ASSUME NEW q \in Slots, Crash(q) \/ AnnounceSubmission(q) \/ TellLearner(q)
      PROVE  FALSE
  BY <1>3, <1>5 DEF Crash, AnnounceSubmission, TellLearner
<1>6. ASSUME NEW q \in Slots, OpenForm(q) PROVE FALSE
  <2>1. PICK seen \in Times \cup {Unset} :
          Become(q, [Idle EXCEPT !.pc = "editing", !.seen = seen])
    BY <1>6 DEF OpenForm, Sent, TypeOK, Row
  <2>2. [Idle EXCEPT !.pc = "editing", !.seen = seen] \in Page
        /\ [Idle EXCEPT !.pc = "editing", !.seen = seen].pc = "editing"
    BY IdleTyped, TimesTyped DEF Idle, Page, Steps
  <2> QED
    BY <1>1, <2>1, <2>2
<1>7. ASSUME NEW q \in Slots, OpenReview(q) PROVE FALSE
  <2>1. PICK seen \in Times \cup {Unset} :
          Become(q, [Idle EXCEPT !.pc = "reviewing", !.shown = row.answers,
                                 !.seen = seen])
    BY <1>7 DEF OpenReview, Sent, TypeOK, Row
  <2> DEFINE record == [Idle EXCEPT !.pc = "reviewing", !.shown = row.answers,
                                    !.seen = seen]
  <2>2. record \in Page /\ record.pc = "reviewing"
    BY IdleTyped, TimesTyped DEF Idle, Page, Steps, TypeOK, Row
  <2> QED
    BY <1>1, <2>1, <2>2
<1>8. ASSUME NEW q \in Slots,
             SubmitRequest(q) \/ ReviewRequest(q) \/ SendBackRequest(q)
      PROVE  FALSE
  <2>1. \A step \in {"submit", "decide", "return"} :
          /\ [page[q] EXCEPT !.pc = step, !.old = row] \in Page
          /\ [page[q] EXCEPT !.pc = step, !.old = row].pc = step
    BY DEF TypeOK, Page, Steps
  <2>2. \/ Become(q, Idle)
        \/ \E step \in {"submit", "decide", "return"} :
             Become(q, [page[q] EXCEPT !.pc = step, !.old = row])
    BY <1>8 DEF SubmitRequest, ReviewRequest, SendBackRequest
  <2> QED
    BY <1>1, <1>3, <2>1, <2>2
<1>9. ASSUME NEW q \in Slots, SubmitWrite(q)
      PROVE  q = p /\ page'[p].pc = "announce"
  <2> DEFINE record == [Idle EXCEPT !.pc = "announce",
                                    !.old = Submission(page[q].old)]
  <2>1. Tick /\ Become(q, record)
    BY <1>3, <1>9 DEF SubmitWrite
  <2>2. Submission(page[q].old) \in Row
    BY <2>1, RowsTyped DEF TypeOK, Page, Verdicts
  <2>3. record \in Page /\ record.pc = "announce"
    BY <2>2, IdleTyped, TimesTyped DEF Idle, Page, Steps
  <2> QED
    BY <1>2, <2>1, <2>3, BecomeTyped
<1>10. ASSUME NEW q \in Slots, DecideWrite(q) \/ ReturnWrite(q)
       PROVE  q = p /\ page'[p].pc = "tell"
  <2>1. PICK written : /\ AdviserWrite(q, written)
                       /\ \/ \E verdict \in Verdicts :
                               written = Reviewed(page[q].old, verdict)
                          \/ written = SentBack(page[q].old)
    BY <1>10 DEF DecideWrite, ReturnWrite
  <2> DEFINE record == [page[q] EXCEPT !.pc = "tell", !.old = written]
  <2>2. Tick /\ Become(q, record)
    BY <1>3, <2>1 DEF AdviserWrite
  <2>3. written \in Row
    BY <2>1, <2>2, RowsTyped DEF TypeOK, Page, Verdicts
  <2>4. record \in Page /\ record.pc = "tell"
    BY <2>3 DEF TypeOK, Page, Steps
  <2> QED
    BY <1>2, <2>2, <2>4, BecomeTyped
<1> QED
  BY <1>4, <1>5, <1>6, <1>7, <1>8, <1>9, <1>10 DEF Next, Slots

\* A page that said what it showed acts on what it showed.
LEMMA StepInformed ==
  IInv /\ [Next]_vars =>
    /\ \A p \in Advisers :
         page[p].pc \in {"decide", "return"} /\ page'[p].pc = "tell"
           /\ page[p].seen \notin {Unset, 0} => row.answers = page[p].shown
    /\ \A p \in Tabs :
         At(p, "submit") /\ page'[p].pc = "announce" /\ row.exists
           /\ page[p].seen # Unset => row.request = page[p].seen
<1> SUFFICES ASSUME IInv, [Next]_vars
             PROVE  /\ \A p \in Advisers :
                         page[p].pc \in {"decide", "return"} /\ page'[p].pc = "tell"
                           /\ page[p].seen \notin {Unset, 0}
                         => row.answers = page[p].shown
                    /\ \A p \in Tabs :
                         At(p, "submit") /\ page'[p].pc = "announce" /\ row.exists
                           /\ page[p].seen # Unset => row.request = page[p].seen
  OBVIOUS
<1>1. ASSUME NEW p \in Advisers, page[p].pc \in {"decide", "return"},
             page'[p].pc = "tell", page[p].seen \notin {Unset, 0}
      PROVE  row.answers = page[p].shown
  <2>1. p \in Slots /\ Deciding(p)
    BY <1>1 DEF Slots, Deciding
  <2>2. DecideWrite(p) \/ ReturnWrite(p)
    BY <1>1, <2>1, WhoWrites DEF IInv
  <2>3. UnchangedSince(page[p].old)
    <3>1. ~Become(p, Idle)
      BY <1>1, <2>1, IdleTyped, BecomeTyped DEF IInv, Idle
    <3> QED
      BY <2>2, <3>1 DEF DecideWrite, ReturnWrite, AdviserWrite
  <2>4. row = page[p].old
    BY <2>1, <2>3, AdviserBase
  <2>5. page[p].seen = row.at /\ page[p].seen = page[p].shown /\ row.exists
    BY <1>1, <2>1, <2>4 DEF IInv, Safe, Fresh, Reviewing, Deciding
  <2> QED
    BY <1>1, <2>5 DEF IInv, Safe, NewestStands
<1>2. ASSUME NEW p \in Tabs, At(p, "submit"), page'[p].pc = "announce", row.exists,
             page[p].seen # Unset
      PROVE  row.request = page[p].seen
  <2>1. p \in Slots /\ SubmitWrite(p)
    BY <1>2, WhoWrites DEF IInv, Slots, At
  <2>2. IF page[p].old.exists THEN Claimable(page[p].old) ELSE ~row.exists
    <3>1. ~Become(p, Idle)
      BY <1>2, <2>1, IdleTyped, BecomeTyped DEF IInv, Idle
    <3> QED
      BY <2>1, <3>1 DEF SubmitWrite
  <2>3. row = page[p].old
    BY <1>2, <2>1, <2>2, SubmitBase
  <2> QED
    BY <1>2, <2>1, <2>3 DEF IInv, Safe, Fresh, Submitting
<1> QED
  BY <1>1, <1>2

\* Nobody who says what their page showed decides on, or answers, anything else.
THEOREM InformedHolds == Spec => Informed
  BY Invariance, StepInformed, PTL DEF Spec, Informed

-----------------------------------------------------------------------------
(* Every submission is news *)

\* Initially nothing has been submitted.
LEMMA InitRounds == Init => Rounds
  BY DEF Init, Rounds, KeysOld, Pending, Apart, At, Idle

\* A step that submits nothing and uses no key of a submission.
LEMMA RoundsKept ==
  ASSUME IInv, Rounds, NEW p \in Slots, NEW record \in Page, Become(p, record),
         record.pc # "announce", wiped' = wiped,
         row.exists => row'.exists /\ row'.round = row.round,
         \A n \in Nat : <<"submitted", n>> \in keys' => <<"submitted", n>> \in keys
  PROVE  Rounds'
<1>1. page'[p] = record /\ \A q \in Slots \ {p} : page'[q] = page[q]
  BY BecomeTyped DEF IInv
<1>2. \A q \in Slots : page[q].old.round \in Nat
  BY DEF IInv, TypeOK, Page, Row
<1> SUFFICES ASSUME ~wiped PROVE KeysOld' /\ (\A q \in Slots : Pending(q)')
                                 /\ \A q, r \in Slots : Apart(q, r)'
  BY DEF Rounds
<1>3. KeysOld'
  BY DEF Rounds, KeysOld
<1>4. ASSUME NEW q \in Slots PROVE Pending(q)'
  <2>1. CASE q = p
    BY <1>1, <2>1 DEF Pending, At
  <2>2. CASE q # p
    BY <1>1, <1>2, <2>2 DEF Rounds, Pending, At, SubmittedKey
  <2> QED
    BY <2>1, <2>2
<1>5. ASSUME NEW q \in Slots, NEW r \in Slots PROVE Apart(q, r)'
  BY <1>1 DEF Rounds, Apart, At
<1> QED
  BY <1>3, <1>4, <1>5

\* Every step keeps the submissions' keys apart.
LEMMA StepRounds == IInv /\ Rounds /\ [Next]_vars => Rounds'
<1> SUFFICES ASSUME IInv, Rounds, [Next]_vars PROVE Rounds'
  OBVIOUS
<1> USE DEF history
<1>1. CASE AdminEdit \/ UNCHANGED vars
  BY <1>1 DEF AdminEdit, vars, Rounds, KeysOld, Pending, Apart, At
<1>2. CASE Wipe
  BY <1>2 DEF Wipe, Rounds
<1>3. Idle.pc = "idle" /\ Idle \in Page
  BY IdleTyped DEF Idle
<1>4. ASSUME NEW p \in Slots, Become(p, Idle), wiped' = wiped, keys' = keys,
             row' = row
      PROVE  Rounds'
  BY <1>3, <1>4, RoundsKept
<1>5. ASSUME NEW p \in Slots, OpenForm(p) PROVE Rounds'
  <2>1. PICK seen \in Times \cup {Unset} :
          Become(p, [Idle EXCEPT !.pc = "editing", !.seen = seen])
    BY <1>5 DEF OpenForm, Sent, IInv, TypeOK, Row
  <2>2. [Idle EXCEPT !.pc = "editing", !.seen = seen] \in Page
        /\ [Idle EXCEPT !.pc = "editing", !.seen = seen].pc = "editing"
    BY IdleTyped, TimesTyped DEF Idle, Page, Steps
  <2> QED
    BY <1>5, <2>1, <2>2, RoundsKept DEF OpenForm
<1>6. ASSUME NEW p \in Slots, OpenReview(p) PROVE Rounds'
  <2>1. PICK seen \in Times \cup {Unset} :
          Become(p, [Idle EXCEPT !.pc = "reviewing", !.shown = row.answers,
                                 !.seen = seen])
    BY <1>6 DEF OpenReview, Sent, IInv, TypeOK, Row
  <2> DEFINE record == [Idle EXCEPT !.pc = "reviewing", !.shown = row.answers,
                                    !.seen = seen]
  <2>2. record \in Page /\ record.pc = "reviewing"
    BY IdleTyped, TimesTyped DEF Idle, Page, Steps, IInv, TypeOK, Row
  <2> QED
    BY <1>6, <2>1, <2>2, RoundsKept DEF OpenReview
<1>7. ASSUME NEW p \in Slots,
             SubmitRequest(p) \/ ReviewRequest(p) \/ SendBackRequest(p)
      PROVE  Rounds'
  <2>1. \A step \in {"submit", "decide", "return"} :
          /\ [page[p] EXCEPT !.pc = step, !.old = row] \in Page
          /\ [page[p] EXCEPT !.pc = step, !.old = row].pc = step
    BY DEF IInv, TypeOK, Page, Steps
  <2>2. \/ Become(p, Idle)
        \/ \E step \in {"submit", "decide", "return"} :
             Become(p, [page[p] EXCEPT !.pc = step, !.old = row])
    BY <1>7 DEF SubmitRequest, ReviewRequest, SendBackRequest
  <2>3. row' = row /\ keys' = keys /\ wiped' = wiped
    BY <1>7 DEF SubmitRequest, ReviewRequest, SendBackRequest
  <2> QED
    BY <1>4, <2>1, <2>2, <2>3, RoundsKept
<1>8. ASSUME NEW p \in Slots, SubmitWrite(p) PROVE Rounds'
  <2> DEFINE old == page[p].old
             record == [Idle EXCEPT !.pc = "announce", !.old = Submission(old)]
  <2>1. CASE /\ IF old.exists THEN Claimable(old) ELSE ~row.exists
             /\ Tick /\ row' = Submission(old) /\ Become(p, record)
    <3>1. Submission(old) \in Row
      BY <2>1, RowsTyped DEF IInv, TypeOK, Page, Verdicts
    <3>2. record \in Page /\ record.pc = "announce" /\ record.old = Submission(old)
      BY <3>1, IdleTyped, TimesTyped DEF Idle, Page, Steps
    <3>3. page'[p] = record /\ \A q \in Slots \ {p} : page'[q] = page[q]
      BY <2>1, <3>2, BecomeTyped DEF IInv
    <3>4. row = old
      BY <1>8, <2>1, SubmitBase DEF SubmitWrite
    <3>5. row.exists => row'.round = row.round + 1
      BY <1>8, <2>1, <3>4 DEF SubmitWrite, Submission, IInv, Safe, Fresh, Submitting
    <3>6. /\ row'.exists /\ row.round \in Nat /\ row'.round \in Nat
          /\ \A q \in Slots : page[q].old.round \in Nat
      BY <2>1, <3>1 DEF Submission, IInv, TypeOK, Page, Row
    <3>7. keys' = keys /\ wiped' = wiped
      BY <1>8 DEF SubmitWrite
    <3> SUFFICES ASSUME ~wiped PROVE KeysOld' /\ (\A q \in Slots : Pending(q)')
                                     /\ \A q, r \in Slots : Apart(q, r)'
      BY <3>7 DEF Rounds
    <3>8. KeysOld'
      BY <3>5, <3>6, <3>7 DEF Rounds, KeysOld
    <3>9. ASSUME NEW q \in Slots, q # p
          PROVE  Pending(q)' /\ Apart(p, q)' /\ Apart(q, p)'
      BY <2>1, <3>2, <3>3, <3>5, <3>6, <3>7, <3>9 DEF Rounds, Pending, Apart, At,
         SubmittedKey
    <3>10. Pending(p)'
      BY <2>1, <3>2, <3>3, <3>5, <3>6, <3>7 DEF Rounds, KeysOld, Pending, At,
         SubmittedKey
    <3>11. \A q, r \in Slots \ {p} : Apart(q, r)'
      BY <3>3 DEF Rounds, Apart, At
    <3> QED
      BY <3>8, <3>9, <3>10, <3>11 DEF Apart
  <2>2. CASE Become(p, Idle) /\ row' = row
    BY <1>4, <1>8, <2>2 DEF SubmitWrite
  <2> QED
    BY <1>8, <2>1, <2>2 DEF SubmitWrite
<1>9. ASSUME NEW p \in Slots, AnnounceSubmission(p) PROVE Rounds'
  <2>1. page'[p] = Idle /\ \A q \in Slots \ {p} : page'[q] = page[q]
    BY <1>3, <1>9, BecomeTyped DEF AnnounceSubmission, IInv
  <2>2. row' = row /\ wiped' = wiped /\ keys' = keys \cup {SubmittedKey(page[p].old)}
    BY <1>9 DEF AnnounceSubmission
  <2> SUFFICES ASSUME ~wiped PROVE KeysOld' /\ (\A q \in Slots : Pending(q)')
                                   /\ \A q, r \in Slots : Apart(q, r)'
    BY <2>2 DEF Rounds
  <2>3. KeysOld'
    BY <1>9, <2>2 DEF Rounds, KeysOld, Pending, AnnounceSubmission, SubmittedKey
  <2>4. ASSUME NEW q \in Slots PROVE Pending(q)'
    <3>1. CASE q = p
      BY <1>3, <2>1, <3>1 DEF Pending, At
    <3>2. CASE q # p
      BY <1>9, <2>1, <2>2, <3>2 DEF Rounds, Pending, Apart, At, AnnounceSubmission,
         SubmittedKey
    <3> QED
      BY <3>1, <3>2
  <2>5. \A q, r \in Slots : Apart(q, r)'
    BY <1>3, <2>1 DEF Rounds, Apart, At
  <2> QED
    BY <2>3, <2>4, <2>5
<1>10. ASSUME NEW p \in Slots, DecideWrite(p) \/ ReturnWrite(p) PROVE Rounds'
  <2> DEFINE old == page[p].old
  <2>1. PICK written : /\ AdviserWrite(p, written)
                       /\ \/ \E verdict \in Verdicts : written = Reviewed(old, verdict)
                          \/ written = SentBack(old)
    BY <1>10 DEF DecideWrite, ReturnWrite
  <2>2. keys' = keys /\ wiped' = wiped /\ Deciding(p)
    BY <1>10, <2>1 DEF AdviserWrite, DecideWrite, ReturnWrite, At, Deciding
  <2>3. CASE UnchangedSince(old)
    <3> DEFINE record == [page[p] EXCEPT !.pc = "tell", !.old = written]
    <3>1. Tick /\ Become(p, record) /\ row' = written /\ row = old /\ row \in Row
      BY <2>1, <2>2, <2>3, AdviserBase DEF AdviserWrite, IInv, TypeOK
    <3>2. written \in Row
      BY <2>1, <3>1, RowsTyped DEF IInv, Verdicts
    <3>3. record \in Page /\ record.pc = "tell"
      BY <3>2 DEF IInv, TypeOK, Page, Steps
    <3>4. written.exists = old.exists /\ written.round = old.round
      BY <2>1, <3>1 DEF Reviewed, SentBack, Row
    <3> QED
      BY <2>2, <3>1, <3>3, <3>4, RoundsKept
  <2>4. CASE ~UnchangedSince(old)
    BY <1>4, <2>1, <2>2, <2>4 DEF AdviserWrite
  <2> QED
    BY <2>3, <2>4
<1>11. ASSUME NEW p \in Slots, TellLearner(p) PROVE Rounds'
  <2>1. DecisionKey(page[p].old)[1] \in Statuses \cup {"changes"}
    BY DEF DecisionKey, IInv, TypeOK, Page, Row
  <2>2. DecisionKey(page[p].old)[1] # "submitted"
    BY <2>1 DEF Statuses, Verdicts
  <2>3. \A n \in Nat : <<"submitted", n>> # DecisionKey(page[p].old)
    BY <2>2
  <2>4. \A n \in Nat : <<"submitted", n>> \in keys' => <<"submitted", n>> \in keys
    BY <1>11, <2>3 DEF TellLearner
  <2> QED
    BY <1>3, <1>11, <2>4, RoundsKept DEF TellLearner
<1>12. ASSUME NEW p \in Slots, Crash(p) PROVE Rounds'
  BY <1>4, <1>12 DEF Crash
<1> QED
  BY <1>1, <1>2, <1>5, <1>6, <1>7, <1>8, <1>9, <1>10, <1>11, <1>12 DEF Next, Slots

\* While the row lives, the admins hear of every submission.
THEOREM SubmissionsAreNews == Spec => []EverySubmissionIsNews
<1>1. Init => IInv /\ Rounds
  BY InitTyped, InitSafe, InitRounds DEF IInv
<1>2. IInv /\ Rounds /\ [Next]_vars => (IInv /\ Rounds)'
  BY StepTyped, StepSafe, StepRounds DEF IInv
<1>3. Rounds => EverySubmissionIsNews
  BY DEF Rounds, Pending, EverySubmissionIsNews, Slots
<1> QED
  BY <1>1, <1>2, <1>3, PTL DEF Spec
=============================================================================
