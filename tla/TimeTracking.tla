------------------------------ MODULE TimeTracking ----------------------------
(***************************************************************************)
(* The study time of one learner in one section: pings of the open tabs, each *)
(* handled by some instance of the server, the row they add up in, the daily  *)
(* roll-up, and the freeze once the course is completed, which every instance *)
(* remembers for itself.                                                    *)
(*                                                                          *)
(* The clock counts half seconds: totals are whole ones, and every credit is  *)
(* rounded.                                                                 *)
(***************************************************************************)
EXTENDS Integers, FiniteSetsExt

CONSTANTS
  Pings,      \* requests
  Instances,  \* of the server
  Cap,        \* perPingCap, in half seconds
  TTL,        \* NOT_FROZEN_TTL_MS, in half seconds
  Unknown,    \* nothing is remembered, or no row was there
  MaxTime,    \* bound on the clock
  MayWipe,    \* the learner is reset or unassigned
  MayCrash

ASSUME TimeAssumption ==
  /\ Pings # {} /\ Instances # {} /\ IsFiniteSet(Pings)
  /\ {Cap, TTL, MaxTime} \subseteq Nat
  /\ Unknown \notin Nat
  /\ {MayWipe, MayCrash} \subseteq BOOLEAN

VARIABLES
  clock,
  row,        \* the SectionTimeSpent row; opened is a history field, its first time
  daily,      \* the SectionTimeSpentDaily row
  completed,  \* courseCompletedAt is set
  frozen,     \* frozenTotals of every instance has an entry
  notFrozen,  \* notFrozenUntil of every instance
  ping,
  rounded,    \* history: how many half seconds the row was credited by rounding
  rewound,    \* history: by how much opening pings moved the row back in time
  erased,     \* history: a row was deleted
  lost        \* history: a roll-up was cut off

caches  == <<frozen, notFrozen>>
history == <<rounded, rewound, erased, lost>>
vars    == <<clock, row, daily, completed, caches, ping, history>>

Times == 0 .. MaxTime
Row   == [exists : BOOLEAN, total : Nat, last : Times, opened : Times]
NoRow == [exists |-> FALSE, total |-> 0, last |-> 0, opened |-> 0]

\* seen is lastHeartbeatAt as it was read, stamp the completion, skip that the instance
\* did not look for it, now the time of receipt, seconds what is rolled up.
Ping == [pc : {"idle", "check", "write", "daily"}, at : Instances, seen : Times \cup {Unknown},
         stamp : BOOLEAN, skip : BOOLEAN, now : Times, seconds : Nat]
Idle == [pc |-> "idle", at |-> CHOOSE i \in Instances : TRUE, seen |-> Unknown,
         stamp |-> FALSE, skip |-> FALSE, now |-> 0, seconds |-> 0]

At(p, step)       == ping[p].pc = step
Become(p, record) == ping' = [ping EXCEPT ![p] = record]
Least(a, b)       == IF a < b THEN a ELSE b

\* Math.round
Rounded(halves) == (halves + 1) \div 2

-----------------------------------------------------------------------------
Init ==
  /\ clock = 0
  /\ row = NoRow
  /\ daily = 0
  /\ completed = FALSE
  /\ frozen = [i \in Instances |-> FALSE]
  /\ notFrozen = [i \in Instances |-> Unknown]
  /\ ping = [p \in Pings |-> Idle]
  /\ rounded = 0 /\ rewound = 0
  /\ erased = FALSE /\ lost = FALSE

Tick ==
  /\ clock < MaxTime
  /\ clock' = clock + 1
  /\ UNCHANGED <<row, daily, completed, caches, ping, history>>

Complete ==
  /\ ~completed
  /\ completed' = TRUE
  /\ UNCHANGED <<clock, row, daily, caches, ping, history>>

\* A reset deletes the completion and keeps the time, unassigning deletes both.
\* Neither touches the daily roll-up.  The histories of a row go with it.
Wipe ==
  /\ MayWipe
  /\ completed' = FALSE
  /\ \/ UNCHANGED <<row, erased, rounded, rewound>>
     \/ /\ row' = NoRow /\ erased' = (erased \/ row.exists)
        /\ rounded' = 0 /\ rewound' = 0
  /\ UNCHANGED <<clock, daily, caches, ping, lost>>

Crash(p) ==
  /\ MayCrash /\ ~At(p, "idle")
  /\ lost' = (lost \/ At(p, "daily"))
  /\ Become(p, Idle)
  /\ UNCHANGED <<clock, row, daily, completed, caches, rounded, rewound, erased>>

\* An instance that is replaced forgets.
Restart(i) ==
  /\ MayCrash
  /\ frozen' = [frozen EXCEPT ![i] = FALSE]
  /\ notFrozen' = [notFrozen EXCEPT ![i] = Unknown]
  /\ UNCHANGED <<clock, row, daily, completed, ping, history>>

-----------------------------------------------------------------------------
(* heartbeat *)

KnownNotFrozen(i) == notFrozen[i] # Unknown /\ notFrozen[i] >= clock

\* An instance that remembers a freeze answers from memory; else it reads the row
\* and, unless it looked a moment ago, the completion.
Read(p) ==
  /\ At(p, "idle")
  /\ \E i \in Instances :
       /\ ~frozen[i]
       /\ Become(p, [Idle EXCEPT !.pc = "check", !.at = i,
                                 !.seen = IF row.exists THEN row.last ELSE Unknown,
                                 !.stamp = completed /\ ~KnownNotFrozen(i),
                                 !.skip = KnownNotFrozen(i)])
  /\ UNCHANGED <<clock, row, daily, completed, caches, history>>

\* A completed course does not accrue, and the instance remembers it.
Check(p) ==
  LET i == ping[p].at IN
  /\ At(p, "check")
  /\ IF ping[p].stamp
     THEN /\ frozen' = [frozen EXCEPT ![i] = TRUE]
          /\ notFrozen' = [notFrozen EXCEPT ![i] = Unknown]
          /\ Become(p, Idle)
     ELSE /\ notFrozen' = IF ping[p].skip THEN notFrozen
                          ELSE [notFrozen EXCEPT ![i] = clock + TTL]
          /\ Become(p, [ping[p] EXCEPT !.pc = "write", !.now = clock])
          /\ UNCHANGED frozen
  /\ UNCHANGED <<clock, row, daily, completed, history>>

\* The first ping opens the row and credits nothing; one that lost the race to
\* open it only sets the time, to its own, however much later it is written.
OpenRow(p) ==
  LET now == ping[p].now IN
  /\ At(p, "write") /\ ping[p].seen = Unknown
  /\ row' = IF row.exists THEN [row EXCEPT !.last = now]
            ELSE [exists |-> TRUE, total |-> 0, last |-> now, opened |-> now]
  /\ rewound' = IF row.exists /\ now < row.last THEN rewound + (row.last - now) ELSE rewound
  /\ Become(p, Idle)
  /\ UNCHANGED <<clock, daily, completed, caches, rounded, erased, lost>>

\* Mutant: the write is not conditional on the time that was read.
NotAdvancedAlways(seen) == row.exists

\* The time of the last ping is the version of the row.
NotAdvanced(seen) == row.exists /\ row.last = seen

\* What the client measured, bounded by the time since the last ping and the cap.
Creditable(seen, now) == IF now < seen THEN 0 ELSE Least(now - seen, Cap)

\* The loser of a race credits nothing.
Credit(p) ==
  LET now == ping[p].now  seen == ping[p].seen IN
  /\ At(p, "write") /\ seen # Unknown
  /\ IF NotAdvanced(seen)
     THEN \E halves \in 0 .. Creditable(seen, now) :
            /\ row' = [row EXCEPT !.total = @ + Rounded(halves), !.last = now]
            /\ rounded' = rounded + (halves % 2)
            /\ Become(p, IF halves > 0
                         THEN [ping[p] EXCEPT !.pc = "daily", !.seconds = Rounded(halves)]
                         ELSE Idle)
     ELSE Become(p, Idle) /\ UNCHANGED <<row, rounded>>
  /\ UNCHANGED <<clock, daily, completed, caches, rewound, erased, lost>>

\* Mutant: a roll-up writes the total over what other sections and pings added.
RolledUpOver(p) == row.total

\* accrueDailyTime increments.
RolledUp(p) == daily + ping[p].seconds

\* Not on the path of the answer, and not retried.
RollUp(p) ==
  /\ At(p, "daily")
  /\ daily' = RolledUp(p)
  /\ Become(p, Idle)
  /\ UNCHANGED <<clock, row, completed, caches, history>>

\* recordSectionAttempt opens the row too, and never moves its time.
Attempt ==
  /\ ~row.exists
  /\ row' = [exists |-> TRUE, total |-> 0, last |-> clock, opened |-> clock]
  /\ UNCHANGED <<clock, daily, completed, caches, ping, history>>

-----------------------------------------------------------------------------
Next ==
  \/ Tick \/ Complete \/ Wipe \/ Attempt
  \/ \E i \in Instances : Restart(i)
  \/ \E p \in Pings :
       Read(p) \/ Check(p) \/ OpenRow(p) \/ Credit(p) \/ RollUp(p) \/ Crash(p)

Spec == Init /\ [][Next]_vars

-----------------------------------------------------------------------------
(* Properties *)

\* Every variable has its type; times lie on the clock.
TypeOK ==
  /\ clock \in Times
  /\ row \in Row
  /\ daily \in Nat
  /\ completed \in BOOLEAN
  /\ frozen \in [Instances -> BOOLEAN]
  /\ notFrozen \in [Instances -> Nat \cup {Unknown}]
  /\ ping \in [Pings -> Ping]
  /\ {rounded, rewound} \subseteq Nat
  /\ {erased, lost} \subseteq BOOLEAN

\* No stretch of time is credited twice, whatever pings overlap, the opening ones
\* included: what a row has is the time since it was opened at most, but for the
\* half seconds that were rounded up and for the time that late opening pings turned
\* the row back by, which the next ping is credited again (heartbeat).
NoWindowTwice == 2 * row.total <= (row.last - row.opened) + rounded + rewound

\* Overlapping pings can never credit the same wall-clock window twice (heartbeat,
\* CONCURRENCY).  An opening ping so slow that another one was credited before it
\* was written makes it so: its upsert is not conditional.
NeverTwice == 2 * row.total <= (clock - row.opened) + rounded

\* What is credited reaches the day: roll-ups that commute make its total agree
\* with the section's as soon as none is pending, unless one was cut off.
DayAgrees ==
  ~erased /\ ~lost =>
    daily + MapThenSumSet(LAMBDA p : ping[p].seconds, Pings) = row.total

\* Completed courses never un-freeze, and a ping is told that its course is frozen
\* only when it is completed (frozenTotals).  A reset of the learner's progress
\* deletes the completion, and the instance goes on telling.
FrozenIsCompleted ==
  \A i \in Instances : frozen[i] => completed
=============================================================================
