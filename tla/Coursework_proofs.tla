--------------------------- MODULE Coursework_proofs ---------------------------
(***************************************************************************)
(* Proofs about the learner's own work beside the chapters: the study time of *)
(* a section (TimeTracking), for any number of pings and instances, any cap   *)
(* and any length of the caches' memory, with the total of the day as a sum   *)
(* over the pings; and an assignment (Assignments), for any number of          *)
(* concurrent requests, any scores and any number of resubmissions.           *)
(***************************************************************************)
EXTENDS TimeTracking, Assignments, FiniteSetTheorems, WellFoundedInduction, TLAPS

\* What a ping has read lies in the past, and it was received after it was read.
PingInPast ==
  \A p \in Pings :
    /\ ping[p].now <= clock
    /\ ping[p].seen # Unknown => ping[p].seen <= clock
    /\ At(p, "write") /\ ping[p].seen # Unknown => ping[p].seen <= ping[p].now

\* So does what the row tells.
RowInPast == row.last <= clock /\ (~row.exists => row = NoRow)

\* What the pings in h have left to roll up.
Pending(h) == MapThenSumSet(LAMBDA p : h[p].seconds, Pings)

\* One step of that sum: what g makes of a set of pings.
Pick(s)         == CHOOSE p \in s : TRUE
Summed(g, h, s) == IF s = {} THEN 0 ELSE h[Pick(s)].seconds + g[s \ {Pick(s)}]
Sums(g, h)      == g = [s \in SUBSET Pings |-> Summed(g, h, s)]

\* Only a ping that has credited has anything left to roll up.
OwesAfterCredit == \A p \in Pings : ~At(p, "daily") => ping[p].seconds = 0

\* Until a row is deleted or a roll-up lost, the section has what the day has and what
\* the pings owe it.
Agreement == ~erased /\ ~lost => daily + Pending(ping) = row.total

\* The inductive invariant.
IInv ==
  TypeOK /\ PingInPast /\ RowInPast /\ NoWindowTwice /\ OwesAfterCredit /\ Agreement

USE DEF At, Become, caches, history

-----------------------------------------------------------------------------
\* The bounds are numbers.
LEMMA Bounds == Cap \in Nat /\ TTL \in Nat /\ MaxTime \in Nat
  BY TimeAssumption

\* The record of a ping at rest is one.
LEMMA IdlePing == Idle \in Ping
  BY TimeAssumption DEF Idle, Ping, Times

\* Half seconds rounded are the odd one more than the whole.
LEMMA RoundedBound ==
  ASSUME NEW h \in Nat
  PROVE  /\ Rounded(h) \in Nat /\ h % 2 \in Nat
         /\ 2 * Rounded(h) = h + (h % 2)
         /\ h = 0 => Rounded(h) = 0
  BY DEF Rounded

\* What is credited lies between the last ping and this one.
LEMMA CreditBound ==
  ASSUME NEW seen \in Times, NEW now \in Times
  PROVE  /\ Creditable(seen, now) \in Nat
         /\ seen <= now => Creditable(seen, now) <= now - seen
<1>1. Cap \in Nat /\ seen \in Nat /\ now \in Nat
  BY Bounds DEF Times
<1> QED BY <1>1 DEF Creditable, Least

-----------------------------------------------------------------------------
\* The variables are well typed at first.
LEMMA TypeInit == Init => TypeOK
<1> SUFFICES ASSUME Init PROVE TypeOK
  OBVIOUS
<1>1. 0 \in Times
  BY Bounds DEF Times
<1>2. row \in Row
  BY <1>1 DEF Init, Row, NoRow
<1>3. ping \in [Pings -> Ping]
  BY IdlePing DEF Init
<1>4. clock \in Times /\ daily \in Nat /\ completed \in BOOLEAN /\ rounded = 0 /\ rewound = 0
  BY <1>1 DEF Init
<1>5. frozen \in [Instances -> BOOLEAN] /\ notFrozen \in [Instances -> Nat \cup {Unknown}]
  BY DEF Init
<1> QED BY <1>2, <1>3, <1>4, <1>5 DEF Init, TypeOK

\* Every step keeps the types.
LEMMA TypeStep == TypeOK /\ [Next]_vars => TypeOK'
<1> SUFFICES ASSUME TypeOK, [Next]_vars PROVE TypeOK'
  OBVIOUS
<1> USE TimeAssumption, IdlePing
<1>1. CASE Tick
  BY <1>1 DEF Tick, TypeOK, Times
<1>2. CASE Complete
  BY <1>2 DEF Complete, TypeOK
<1>3. CASE Wipe
  <2>1. 0 \in Times
    BY Bounds DEF Times
  <2>2. NoRow \in Row
    BY <2>1 DEF NoRow, Row
  <2>3. row' \in Row
    BY <1>3, <2>2 DEF Wipe, TypeOK
  <2>4. /\ erased' \in BOOLEAN /\ completed' \in BOOLEAN
        /\ rounded' \in Nat /\ rewound' \in Nat
    <3>1. CASE UNCHANGED <<row, erased, rounded, rewound>>
      BY <1>3, <3>1 DEF Wipe, TypeOK, Row
    <3>2. CASE erased' = (erased \/ row.exists) /\ rounded' = 0 /\ rewound' = 0
      <4>1. erased' \in BOOLEAN
        BY <3>2 DEF TypeOK, Row
      <4> QED BY <1>3, <3>2, <4>1 DEF Wipe, TypeOK
    <3> QED BY <1>3, <3>1, <3>2 DEF Wipe
  <2> QED BY <1>3, <2>3, <2>4 DEF Wipe, TypeOK
<1>4. CASE Attempt
  BY <1>4 DEF Attempt, TypeOK, Row, Times
<1>5. ASSUME NEW i \in Instances, Restart(i) PROVE TypeOK'
  BY <1>5 DEF Restart, TypeOK
<1>6. ASSUME NEW p \in Pings, Read(p) PROVE TypeOK'
  <2>1. PICK i \in Instances :
          Become(p, [Idle EXCEPT !.pc = "check", !.at = i,
                                 !.seen = IF row.exists THEN row.last ELSE Unknown,
                                 !.stamp = completed /\ ~KnownNotFrozen(i),
                                 !.skip = KnownNotFrozen(i)])
    BY <1>6 DEF Read
  <2>2. KnownNotFrozen(i) \in BOOLEAN
    BY DEF KnownNotFrozen
  <2>3. ping' \in [Pings -> Ping]
    BY <2>1, <2>2 DEF TypeOK, Ping, Idle, Row
  <2> QED BY <1>6, <2>3 DEF Read, TypeOK
<1>7. ASSUME NEW p \in Pings, Check(p) PROVE TypeOK'
  <2>1. ping[p] \in Ping /\ ping[p].at \in Instances
    BY DEF TypeOK, Ping
  <2>0. clock \in Times /\ clock + TTL \in Nat
    BY Bounds DEF TypeOK, Times
  <2>2. frozen' \in [Instances -> BOOLEAN] /\ notFrozen' \in [Instances -> Nat \cup {Unknown}]
    <3>1. CASE ping[p].stamp
      BY <1>7, <2>1, <3>1 DEF Check, TypeOK
    <3>2. CASE ~ping[p].stamp
      BY <1>7, <2>0, <2>1, <3>2 DEF Check, TypeOK
    <3> QED BY <3>1, <3>2
  <2>3. ping' \in [Pings -> Ping]
    <3>1. [ping[p] EXCEPT !.pc = "write", !.now = clock] \in Ping
      BY <2>0, <2>1 DEF Ping
    <3> QED BY <1>7, <3>1 DEF Check, TypeOK
  <2> QED BY <1>7, <2>2, <2>3 DEF Check, TypeOK
<1>8. ASSUME NEW p \in Pings, OpenRow(p) PROVE TypeOK'
  <2>1. ping[p].now \in Times
    BY DEF TypeOK, Ping
  <2>2. row' \in Row
    BY <1>8, <2>1 DEF OpenRow, TypeOK, Row, Times
  <2>3. rewound' \in Nat
    BY <1>8, <2>1 DEF OpenRow, TypeOK, Row, Times
  <2> QED BY <1>8, <2>2, <2>3 DEF OpenRow, TypeOK
<1>9. ASSUME NEW p \in Pings, Credit(p) PROVE TypeOK'
  <2>1. ping[p] \in Ping /\ ping[p].now \in Times /\ ping[p].seen \in Times
    BY <1>9 DEF Credit, TypeOK, Ping
  <2>2. CASE NotAdvanced(ping[p].seen)
    <3>1. PICK halves \in 0 .. Creditable(ping[p].seen, ping[p].now) :
            /\ row' = [row EXCEPT !.total = @ + Rounded(halves), !.last = ping[p].now]
            /\ rounded' = rounded + (halves % 2)
            /\ Become(p, IF halves > 0
                         THEN [ping[p] EXCEPT !.pc = "daily", !.seconds = Rounded(halves)]
                         ELSE Idle)
      BY <1>9, <2>2 DEF Credit
    <3>2. halves \in Nat /\ Rounded(halves) \in Nat /\ halves % 2 \in Nat
      BY <2>1, <3>1, CreditBound, RoundedBound
    <3>3. row' \in Row
      <4>1. row \in Row /\ row.total + Rounded(halves) \in Nat
        BY <3>2 DEF TypeOK, Row
      <4> QED BY <2>1, <3>1, <4>1 DEF Row
    <3>4. ping' \in [Pings -> Ping]
      BY <2>1, <3>1, <3>2 DEF TypeOK, Ping
    <3>5. rounded' \in Nat
      BY <3>1, <3>2 DEF TypeOK
    <3> QED BY <1>9, <3>3, <3>4, <3>5 DEF Credit, TypeOK
  <2>3. CASE ~NotAdvanced(ping[p].seen)
    BY <1>9, <2>3 DEF Credit, TypeOK
  <2> QED BY <2>2, <2>3
<1>10. ASSUME NEW p \in Pings, RollUp(p) PROVE TypeOK'
  <2>1. daily' \in Nat
    BY <1>10 DEF RollUp, RolledUp, TypeOK, Ping
  <2> QED BY <1>10, <2>1 DEF RollUp, TypeOK
<1>11. ASSUME NEW p \in Pings, Crash(p) PROVE TypeOK'
  BY <1>11 DEF Crash, TypeOK
<1>12. CASE UNCHANGED vars
  BY <1>12 DEF vars, TypeOK
<1> QED
  BY <1>1, <1>2, <1>3, <1>4, <1>5, <1>6, <1>7, <1>8, <1>9, <1>10, <1>11, <1>12 DEF Next

\* Time stamps are never ahead of the clock.
LEMMA PastStep == TypeOK /\ PingInPast /\ RowInPast /\ [Next]_vars => PingInPast'
<1> SUFFICES ASSUME TypeOK, PingInPast, RowInPast, [Next]_vars, NEW q \in Pings
             PROVE  /\ ping'[q].now <= clock'
                    /\ ping'[q].seen # Unknown => ping'[q].seen <= clock'
                    /\ ping'[q].pc = "write" /\ ping'[q].seen # Unknown
                         => ping'[q].seen <= ping'[q].now
  BY DEF PingInPast
<1> USE TimeAssumption, IdlePing
<1>0. /\ ping[q] \in Ping /\ ping[q].now \in Nat /\ clock \in Nat /\ row.last \in Nat
      /\ ping[q].seen # Unknown => ping[q].seen \in Nat
      /\ ping[q].now <= clock
      /\ ping[q].seen # Unknown => ping[q].seen <= clock
      /\ ping[q].pc = "write" /\ ping[q].seen # Unknown => ping[q].seen <= ping[q].now
      /\ row.last <= clock
  BY DEF TypeOK, Ping, Times, Row, PingInPast, RowInPast
<1>1. CASE Tick
  BY <1>0, <1>1 DEF Tick
<1>2. CASE Complete \/ Wipe \/ Attempt \/ (\E i \in Instances : Restart(i)) \/ UNCHANGED vars
  <2>1. ping' = ping /\ clock' = clock
    BY <1>2 DEF Complete, Wipe, Attempt, Restart, vars
  <2> QED BY <1>0, <2>1
<1>3. ASSUME NEW p \in Pings, Read(p) \/ Check(p) \/ OpenRow(p) \/ Credit(p) \/ RollUp(p) \/ Crash(p)
      PROVE  /\ ping'[q].now <= clock'
             /\ ping'[q].seen # Unknown => ping'[q].seen <= clock'
             /\ ping'[q].pc = "write" /\ ping'[q].seen # Unknown
                  => ping'[q].seen <= ping'[q].now
  <2>1. clock' = clock
    BY <1>3 DEF Read, Check, OpenRow, Credit, RollUp, Crash
  <2>2. CASE q # p
    <3>1. ping'[q] = ping[q]
      BY <1>3, <2>2 DEF Read, Check, OpenRow, Credit, RollUp, Crash, TypeOK
    <3> QED BY <1>0, <2>1, <3>1
  <2>3. CASE q = p /\ Read(p)
    <3>1. /\ ping'[p].now = 0 /\ ping'[p].pc = "check"
          /\ ping'[p].seen \in {row.last, Unknown}
      BY <2>3 DEF Read, Idle, TypeOK
    <3> QED BY <1>0, <2>1, <2>3, <3>1
  <2>4. CASE q = p /\ Check(p)
    <3>1. \/ ping'[p] = Idle
          \/ ping'[p].now = clock /\ ping'[p].seen = ping[p].seen
      BY <2>4 DEF Check, TypeOK, Ping
    <3> QED BY <1>0, <2>1, <2>4, <3>1 DEF Idle
  <2>5. CASE q = p /\ Credit(p)
    <3>1. \/ ping'[p] = Idle
          \/ ping'[p].now = ping[p].now /\ ping'[p].seen = ping[p].seen /\ ping'[p].pc = "daily"
      <4>1. \/ Become(p, Idle)
            \/ \E s : Become(p, [ping[p] EXCEPT !.pc = "daily", !.seconds = s])
        BY <2>5 DEF Credit
      <4>2. ASSUME NEW s, Become(p, [ping[p] EXCEPT !.pc = "daily", !.seconds = s])
            PROVE  ping'[p] = [ping[p] EXCEPT !.pc = "daily", !.seconds = s]
        BY <4>2 DEF TypeOK
      <4>3. ASSUME Become(p, Idle) PROVE ping'[p] = Idle
        BY <4>3 DEF TypeOK
      <4>4. ping[p] \in Ping
        BY <2>5, <1>0
      <4> QED BY <4>1, <4>2, <4>3, <4>4 DEF Ping
    <3> QED BY <1>0, <2>1, <2>5, <3>1 DEF Idle
  <2>6. CASE q = p /\ (OpenRow(p) \/ RollUp(p) \/ Crash(p))
    <3>1. ping'[p] = Idle
      BY <2>6 DEF OpenRow, RollUp, Crash, TypeOK
    <3> QED BY <1>0, <2>1, <2>6, <3>1 DEF Idle
  <2> QED BY <1>3, <2>2, <2>3, <2>4, <2>5, <2>6
<1> QED BY <1>1, <1>2, <1>3 DEF Next

-----------------------------------------------------------------------------
\* The row stays in the past, and what was credited within the time it was open.
LEMMA RowStep == IInv /\ [Next]_vars => RowInPast' /\ NoWindowTwice'
<1> SUFFICES ASSUME IInv, [Next]_vars PROVE RowInPast' /\ NoWindowTwice'
  OBVIOUS
<1> USE TimeAssumption DEF IInv
<1>0. /\ row \in Row /\ clock \in Nat /\ rounded \in Nat /\ rewound \in Nat
      /\ row.last \in Nat /\ row.opened \in Nat /\ row.total \in Nat
  BY DEF TypeOK, Row, Times
<1>1. CASE Tick
  BY <1>0, <1>1 DEF Tick, RowInPast, NoWindowTwice
<1>2. CASE Wipe
  <2>1. CASE UNCHANGED <<row, rounded, rewound>>
    BY <1>0, <1>2, <2>1 DEF Wipe, RowInPast, NoWindowTwice
  <2>2. CASE row' = NoRow /\ rounded' = 0 /\ rewound' = 0
    BY <1>0, <1>2, <2>2 DEF Wipe, RowInPast, NoWindowTwice, NoRow
  <2> QED BY <1>2, <2>1, <2>2 DEF Wipe
<1>3. CASE Attempt
  BY <1>0, <1>3 DEF Attempt, RowInPast, NoWindowTwice
<1>4. ASSUME NEW p \in Pings, OpenRow(p) PROVE RowInPast' /\ NoWindowTwice'
  <2>1. ping[p].now \in Nat /\ ping[p].now <= clock
    BY DEF TypeOK, Ping, Times, PingInPast
  <2>2. CASE row.exists
    <3>1. /\ row'.exists /\ row'.last = ping[p].now /\ row'.opened = row.opened
          /\ row'.total = row.total
      BY <1>0, <1>4, <2>2 DEF OpenRow, Row
    <3>2. clock' = clock /\ rounded' = rounded
      BY <1>4 DEF OpenRow
    <3>3. rewound' >= rewound /\ rewound' >= rewound + (row.last - ping[p].now)
      BY <1>0, <1>4, <2>1, <2>2 DEF OpenRow
    <3>4. RowInPast'
      BY <1>0, <2>1, <3>1, <3>2, <3>3 DEF RowInPast
    <3>5. NoWindowTwice'
      <4>1. 2 * row.total <= (row.last - row.opened) + rounded + rewound
        BY DEF NoWindowTwice
      <4>2. rewound' \in Nat
        BY <1>0, <1>4, <2>1 DEF OpenRow
      <4>3. 2 * row.total <= (ping[p].now - row.opened) + rounded + rewound'
        BY <1>0, <2>1, <3>3, <4>1, <4>2
      <4> QED BY <3>1, <3>2, <4>3 DEF NoWindowTwice
    <3> QED BY <3>4, <3>5
  <2>3. CASE ~row.exists
    BY <1>0, <1>4, <2>1, <2>3 DEF OpenRow, RowInPast, NoWindowTwice
  <2> QED BY <2>2, <2>3
<1>5. ASSUME NEW p \in Pings, Credit(p) PROVE RowInPast' /\ NoWindowTwice'
  <2> DEFINE seen == ping[p].seen
             now  == ping[p].now
  <2>1. /\ now \in Times /\ seen \in Times
        /\ now <= clock /\ seen <= now
    BY <1>5 DEF Credit, TypeOK, Ping, PingInPast
  <2>2. CASE NotAdvanced(seen)
    <3>1. PICK halves \in 0 .. Creditable(seen, now) :
            /\ row' = [row EXCEPT !.total = @ + Rounded(halves), !.last = now]
            /\ rounded' = rounded + (halves % 2)
      BY <1>5, <2>2 DEF Credit
    <3>2. /\ halves \in Nat /\ halves <= now - seen
          /\ Rounded(halves) \in Nat /\ halves % 2 \in Nat
          /\ 2 * Rounded(halves) = halves + (halves % 2)
      <4>1. Creditable(seen, now) \in Nat /\ Creditable(seen, now) <= now - seen
        BY <2>1, CreditBound
      <4>2. halves \in Nat /\ halves <= now - seen
        BY <2>1, <3>1, <4>1 DEF Times
      <4> QED BY <4>2, RoundedBound
    <3>3. /\ row'.exists /\ row'.last = now /\ row'.opened = row.opened
          /\ row'.total = row.total + Rounded(halves)
          /\ row.exists /\ row.last = seen
      BY <1>0, <2>2, <3>1 DEF NotAdvanced, Row
    <3>4. clock' = clock /\ rewound' = rewound
      BY <1>5 DEF Credit
    <3> HIDE DEF seen, now
    <3>5. RowInPast'
      BY <1>0, <2>1, <3>3, <3>4 DEF RowInPast, Times
    <3>6. 2 * Rounded(halves) <= (now - seen) + (rounded' - rounded)
      BY <1>0, <2>1, <3>1, <3>2 DEF Times
    <3>7. NoWindowTwice'
      BY <1>0, <2>1, <3>1, <3>2, <3>3, <3>4, <3>6 DEF NoWindowTwice, Times
    <3> QED BY <3>5, <3>7
  <2>3. CASE ~NotAdvanced(seen)
    BY <1>0, <1>5, <2>3 DEF Credit, RowInPast, NoWindowTwice
  <2> QED BY <2>2, <2>3
<1>6. CASE \/ Complete \/ UNCHANGED vars \/ \E i \in Instances : Restart(i)
           \/ \E p \in Pings : Read(p) \/ Check(p) \/ RollUp(p) \/ Crash(p)
  <2>1. UNCHANGED <<row, clock, rounded, rewound>>
    BY <1>6 DEF Complete, vars, Restart, Read, Check, RollUp, Crash
  <2> QED BY <1>0, <2>1 DEF RowInPast, NoWindowTwice
<1> QED BY <1>1, <1>2, <1>3, <1>4, <1>5, <1>6 DEF Next

-----------------------------------------------------------------------------
(* Sums over the pings, by induction on how many they are. *)

\* A set of numbers with 0 and every successor has all of them.
LEMMA AllNumbers ==
  ASSUME NEW T, T \subseteq Nat, 0 \in T, \A n \in T : n + 1 \in T
  PROVE  T = Nat
<1> DEFINE Rest == Nat \ T
<1> SUFFICES ASSUME Rest # {} PROVE FALSE
  OBVIOUS
<1>1. IsWellFoundedOn(OpToRel(<, Nat), Nat)
  BY NatLessThanWellFounded
<1>2. PICK n \in Rest : \A m \in Rest : ~(<<m, n>> \in OpToRel(<, Nat))
  BY <1>1, WFMin
<1>3. \A m \in Nat : m < n => <<m, n>> \in OpToRel(<, Nat)
  BY <1>2 DEF OpToRel
<1>4. n \in Nat /\ n \notin T /\ n # 0
  OBVIOUS
<1>5. n - 1 \in Nat /\ n - 1 < n /\ (n - 1) + 1 = n
  BY <1>4
<1>6. n - 1 \in T
  BY <1>2, <1>3, <1>5
<1> QED BY <1>4, <1>5, <1>6

\* The first of a set of pings is one of them, and the rest is smaller.
LEMMA PickFrom ==
  ASSUME NEW s \in SUBSET Pings, s # {}
  PROVE  /\ Pick(s) \in s
         /\ s \ {Pick(s)} \in SUBSET Pings
         /\ Cardinality(s) \in Nat
         /\ Cardinality(s \ {Pick(s)}) = Cardinality(s) - 1
         /\ Cardinality(s \ {Pick(s)}) \in Nat
<1>1. Pick(s) \in s
  BY DEF Pick
<1>2. IsFiniteSet(s)
  BY TimeAssumption, FS_Subset
<1> QED BY <1>1, <1>2, FS_RemoveElement, FS_CardinalityType

\* There is a way to sum up the sets of pings.
LEMMA SumExists ==
  ASSUME NEW h \in [Pings -> Ping]
  PROVE  \E g \in [SUBSET Pings -> Nat] : Sums(g, h)
<1> DEFINE UpTo(g, n) == \A s \in SUBSET Pings : Cardinality(s) < n => g[s] = Summed(g, h, s)
           T == {n \in Nat : \E g \in [SUBSET Pings -> Nat] : UpTo(g, n)}
<1>1. \A p \in Pings : h[p].seconds \in Nat
  BY DEF Ping
<1>2. ASSUME NEW s \in SUBSET Pings, NEW g \in [SUBSET Pings -> Nat]
      PROVE  Summed(g, h, s) \in Nat
  <2>1. CASE s = {}
    BY <2>1 DEF Summed
  <2>2. CASE s # {}
    <3>1. Pick(s) \in Pings /\ s \ {Pick(s)} \in SUBSET Pings
      BY <2>2, PickFrom
    <3>2. h[Pick(s)].seconds \in Nat /\ g[s \ {Pick(s)}] \in Nat
      BY <1>1, <3>1
    <3> QED BY <2>2, <3>2 DEF Summed
  <2> QED BY <2>1, <2>2
<1>0. \A s \in SUBSET Pings : Cardinality(s) \in Nat
  <2>1. \A s \in SUBSET Pings : IsFiniteSet(s)
    BY TimeAssumption, FS_Subset
  <2> QED BY <2>1, FS_CardinalityType
<1>3. 0 \in T
  <2>1. UpTo([s \in SUBSET Pings |-> 0], 0)
    BY <1>0
  <2> QED BY <2>1
<1>4. ASSUME NEW n \in T PROVE n + 1 \in T
  <2>1. PICK g \in [SUBSET Pings -> Nat] : UpTo(g, n)
    OBVIOUS
  <2> DEFINE f == [s \in SUBSET Pings |-> Summed(g, h, s)]
  <2>2. f \in [SUBSET Pings -> Nat]
    BY <1>2
  <2>3. ASSUME NEW s \in SUBSET Pings, Cardinality(s) < n + 1 PROVE f[s] = Summed(f, h, s)
    <3>1. CASE s = {}
      BY <3>1 DEF Summed
    <3>2. CASE s # {}
      <4> DEFINE r == s \ {Pick(s)}
      <4>1. r \in SUBSET Pings /\ Cardinality(r) < n
        BY <2>3, <3>2, PickFrom
      <4>2. f[r] = g[r]
        BY <2>1, <4>1
      <4> QED BY <3>2, <4>2, <4>1 DEF Summed
    <3> QED BY <3>1, <3>2
  <2>4. UpTo(f, n + 1)
    BY <2>3
  <2> HIDE DEF f, UpTo
  <2> QED BY <2>2, <2>4
<1>5. T = Nat
  <2> HIDE DEF T
  <2>1. T \subseteq Nat
    BY DEF T
  <2> QED BY <1>3, <1>4, <2>1, AllNumbers
<1>6. Cardinality(Pings) + 1 \in T
  <2> HIDE DEF T
  <2> QED BY <1>0, <1>5
<1>7. PICK g \in [SUBSET Pings -> Nat] : UpTo(g, Cardinality(Pings) + 1)
  BY <1>6
<1>8. ASSUME NEW s \in SUBSET Pings PROVE g[s] = Summed(g, h, s)
  <2>1. Cardinality(s) <= Cardinality(Pings)
    BY TimeAssumption, FS_Subset
  <2>2. Cardinality(s) < Cardinality(Pings) + 1
    BY <2>1, <1>0
  <2> QED BY <1>7, <2>2
<1>9. Sums(g, h)
  BY <1>8 DEF Sums
<1> QED BY <1>9

\* The sum is the value that such a way has for all the pings.
LEMMA PendingSums ==
  ASSUME NEW h \in [Pings -> Ping]
  PROVE  \E g : Sums(g, h) /\ Pending(h) = g[Pings]
<1>1. \E g : Sums(g, h)
  BY SumExists
<1> DEFINE iter == CHOOSE g : Sums(g, h)
<1>2. Sums(iter, h)
  BY <1>1
<1>3. Pending(h) = iter[Pings]
  BY DEF Pending, MapThenSumSet, MapThenFoldSet, Sums, Summed, Pick
<1> QED BY <1>2, <1>3

\* A ping whose seconds change changes the sum by the difference.
LEMMA PendingChange ==
  ASSUME NEW h \in [Pings -> Ping], NEW k \in [Pings -> Ping], NEW p \in Pings,
         \A q \in Pings \ {p} : k[q].seconds = h[q].seconds
  PROVE  /\ Pending(h) \in Nat /\ Pending(k) \in Nat
         /\ Pending(k) + h[p].seconds = Pending(h) + k[p].seconds
<1>0. \A q \in Pings : h[q].seconds \in Nat /\ k[q].seconds \in Nat
  BY DEF Ping
<1>1. PICK g : Sums(g, h) /\ Pending(h) = g[Pings]
  BY PendingSums
<1>2. PICK f : Sums(f, k) /\ Pending(k) = f[Pings]
  BY PendingSums
<1> DEFINE Agree(s) == /\ g[s] \in Nat /\ f[s] \in Nat
                       /\ p \in s => f[s] + h[p].seconds = g[s] + k[p].seconds
                       /\ p \notin s => f[s] = g[s]
           T == {n \in Nat : \A s \in SUBSET Pings : Cardinality(s) <= n => Agree(s)}
<1>3. \A s \in SUBSET Pings : g[s] = Summed(g, h, s) /\ f[s] = Summed(f, k, s)
  BY <1>1, <1>2 DEF Sums
<1>4. \A s \in SUBSET Pings : IsFiniteSet(s) /\ Cardinality(s) \in Nat
  BY TimeAssumption, FS_Subset, FS_CardinalityType
<1>5. Agree({})
  <2>1. g[{}] = 0 /\ f[{}] = 0
    BY <1>3 DEF Summed
  <2> QED BY <2>1
<1>6. 0 \in T
  <2>1. ASSUME NEW s \in SUBSET Pings, Cardinality(s) <= 0 PROVE s = {}
    BY <1>4, <2>1, FS_EmptySet
  <2> QED BY <1>5, <2>1
<1>7. ASSUME NEW n \in T PROVE n + 1 \in T
  <2> SUFFICES ASSUME NEW s \in SUBSET Pings, Cardinality(s) <= n + 1 PROVE Agree(s)
    OBVIOUS
  <2>1. CASE s = {}
    BY <1>5, <2>1
  <2>2. CASE s # {}
    <3> DEFINE c == Pick(s)
               r == s \ {c}
    <3>1. c \in s /\ c \in Pings /\ r \in SUBSET Pings /\ Cardinality(r) <= n
      <4> HIDE DEF Agree
      <4>1. /\ c \in s /\ r \in SUBSET Pings /\ Cardinality(s) \in Nat
            /\ Cardinality(r) = Cardinality(s) - 1
        BY <2>2, PickFrom
      <4>2. n \in Nat
        OBVIOUS
      <4> QED BY <4>1, <4>2
    <3>2. Agree(r)
      BY <3>1
    <3>3. g[s] = h[c].seconds + g[r] /\ f[s] = k[c].seconds + f[r]
      BY <1>3, <2>2 DEF Summed
    <3> HIDE DEF c
    <3>4. CASE c = p
      BY <1>0, <3>1, <3>2, <3>3, <3>4
    <3>5. CASE c # p
      BY <1>0, <3>1, <3>2, <3>3, <3>5
    <3> QED BY <3>4, <3>5
  <2> QED BY <2>1, <2>2
<1>8. T = Nat
  <2> HIDE DEF T
  <2>1. T \subseteq Nat
    BY DEF T
  <2> QED BY <1>6, <1>7, <2>1, AllNumbers
<1>9. Agree(Pings)
  <2>1. Cardinality(Pings) \in T /\ Pings \in SUBSET Pings
    BY <1>4, <1>8
  <2> QED BY <1>4, <2>1
<1> QED BY <1>1, <1>2, <1>9

\* Pings that owe the day nothing leave nothing pending.
LEMMA NothingPending ==
  ASSUME NEW h \in [Pings -> Ping], \A p \in Pings : h[p].seconds = 0
  PROVE  Pending(h) = 0
<1>1. PICK g : Sums(g, h) /\ Pending(h) = g[Pings]
  BY PendingSums
<1> DEFINE T == {n \in Nat : \A s \in SUBSET Pings : Cardinality(s) <= n => g[s] = 0}
<1>2. \A s \in SUBSET Pings : g[s] = Summed(g, h, s)
  BY <1>1 DEF Sums
<1>3. \A s \in SUBSET Pings : IsFiniteSet(s) /\ Cardinality(s) \in Nat
  BY TimeAssumption, FS_Subset, FS_CardinalityType
<1>4. g[{}] = 0
  BY <1>2 DEF Summed
<1>5. 0 \in T
  <2>1. ASSUME NEW s \in SUBSET Pings, Cardinality(s) <= 0 PROVE s = {}
    BY <1>3, <2>1, FS_EmptySet
  <2> QED BY <1>4, <2>1
<1>6. ASSUME NEW n \in T PROVE n + 1 \in T
  <2>0. n \in Nat
    OBVIOUS
  <2> SUFFICES ASSUME NEW s \in SUBSET Pings, Cardinality(s) <= n + 1 PROVE g[s] = 0
    BY <2>0
  <2> SUFFICES ASSUME s # {} PROVE g[s] = 0
    BY <1>4
  <2>1. /\ Pick(s) \in Pings /\ s \ {Pick(s)} \in SUBSET Pings
        /\ Cardinality(s \ {Pick(s)}) <= n
    <3>1. /\ Pick(s) \in s /\ s \ {Pick(s)} \in SUBSET Pings /\ Cardinality(s) \in Nat
          /\ Cardinality(s \ {Pick(s)}) = Cardinality(s) - 1
      BY PickFrom
    <3> QED BY <2>0, <3>1
  <2>2. g[s \ {Pick(s)}] = 0 /\ h[Pick(s)].seconds = 0
    BY <2>1
  <2> QED BY <1>2, <2>2 DEF Summed
<1>7. T = Nat
  <2> HIDE DEF T
  <2>1. T \subseteq Nat
    BY DEF T
  <2> QED BY <1>5, <1>6, <2>1, AllNumbers
<1>8. Cardinality(Pings) \in T /\ Pings \in SUBSET Pings
  <2> HIDE DEF T
  <2> QED BY <1>3, <1>7
<1> QED BY <1>1, <1>3, <1>8

-----------------------------------------------------------------------------
\* A ping at rest owes the day nothing, nor does one that has not credited.
LEMMA OwesStep == TypeOK /\ OwesAfterCredit /\ [Next]_vars => OwesAfterCredit'
<1> SUFFICES ASSUME TypeOK, OwesAfterCredit, [Next]_vars,
                    NEW q \in Pings, ping'[q].pc # "daily"
             PROVE  ping'[q].seconds = 0
  BY DEF OwesAfterCredit
<1>0. ping[q] \in Ping /\ (ping[q].pc # "daily" => ping[q].seconds = 0)
  BY DEF TypeOK, OwesAfterCredit
<1>1. CASE ping' = ping
  BY <1>0, <1>1
<1>2. ASSUME NEW p \in Pings, Read(p) \/ Check(p) \/ OpenRow(p) \/ Credit(p) \/ RollUp(p) \/ Crash(p)
      PROVE  ping'[q].seconds = 0
  <2>1. CASE q # p
    <3>1. ping'[q] = ping[q]
      BY <1>2, <2>1 DEF Read, Check, OpenRow, Credit, RollUp, Crash, TypeOK
    <3> QED BY <1>0, <3>1
  <2>2. CASE q = p /\ Read(p)
    BY <2>2 DEF Read, Idle, TypeOK
  <2>3. CASE q = p /\ Check(p)
    <3>1. ping'[p] = Idle \/ ping'[p].seconds = ping[p].seconds
      <4>1. \/ ping'[p] = Idle
            \/ ping'[p] = [ping[p] EXCEPT !.pc = "write", !.now = clock]
        BY <2>3 DEF Check, TypeOK
      <4> QED BY <1>0, <2>3, <4>1 DEF Ping
    <3>2. ping[p].seconds = 0
      BY <1>0, <2>3 DEF Check
    <3> QED BY <2>3, <3>1, <3>2 DEF Idle
  <2>4. CASE q = p /\ Credit(p)
    <3>1. \/ Become(p, Idle)
          \/ \E s : Become(p, [ping[p] EXCEPT !.pc = "daily", !.seconds = s])
      BY <2>4 DEF Credit
    <3>2. ASSUME Become(p, Idle) PROVE ping'[p].seconds = 0
      BY <3>2 DEF TypeOK, Idle
    <3>3. ASSUME NEW s, Become(p, [ping[p] EXCEPT !.pc = "daily", !.seconds = s]) PROVE FALSE
      <4>1. ping'[p] = [ping[p] EXCEPT !.pc = "daily", !.seconds = s]
        BY <3>3 DEF TypeOK
      <4>2. ping'[p].pc = "daily"
        BY <1>0, <2>4, <4>1 DEF Ping
      <4> QED BY <2>4, <4>2
    <3> QED BY <2>4, <3>1, <3>2, <3>3
  <2>5. CASE q = p /\ (OpenRow(p) \/ RollUp(p) \/ Crash(p))
    <3>1. ping'[p] = Idle
      BY <2>5 DEF OpenRow, RollUp, Crash, TypeOK
    <3> QED BY <2>5, <3>1 DEF Idle
  <2> QED BY <1>2, <2>1, <2>2, <2>3, <2>4, <2>5
<1> QED BY <1>1, <1>2 DEF Next, Tick, Complete, Wipe, Attempt, Restart, vars

\* Every step keeps the day and the section in agreement.
LEMMA DayStep == IInv /\ [Next]_vars => Agreement'
<1> SUFFICES ASSUME IInv, [Next]_vars, ~erased', ~lost'
             PROVE  daily' + Pending(ping') = row'.total
  BY DEF Agreement
<1> USE TimeAssumption DEF IInv
<1>0. /\ row \in Row /\ row.total \in Nat /\ daily \in Nat /\ Idle \in Ping
      /\ ping \in [Pings -> Ping]
      /\ ~row.exists => row = NoRow
  BY IdlePing DEF TypeOK, Row, RowInPast
<1>1. ~erased /\ ~lost
  <2>1. CASE Wipe \/ Tick \/ Complete \/ Attempt \/ UNCHANGED vars \/ \E i \in Instances : Restart(i)
    BY <2>1 DEF vars, Tick, Complete, Wipe, Attempt, Restart
  <2>2. ASSUME NEW p \in Pings, Read(p) \/ Check(p) \/ OpenRow(p) \/ Credit(p) \/ RollUp(p)
        PROVE  ~erased /\ ~lost
    <3>1. erased' = erased /\ lost' = lost
      BY <2>2 DEF Read, Check, OpenRow, Credit, RollUp
    <3> QED BY <3>1
  <2>3. ASSUME NEW p \in Pings, Crash(p) PROVE ~erased /\ ~lost
    BY <2>3 DEF Crash
  <2> QED BY <2>1, <2>2, <2>3 DEF Next
<1>2. daily + Pending(ping) = row.total
  BY <1>1 DEF Agreement
<1>3. ping' \in [Pings -> Ping]
  <2>1. TypeOK'
    BY TypeStep
  <2> QED BY <2>1 DEF TypeOK
<1>4. CASE ping' = ping /\ daily' = daily /\ row'.total = row.total
  BY <1>2, <1>4
<1>5. CASE Attempt
  BY <1>0, <1>4, <1>5 DEF Attempt, NoRow
<1>6. CASE Wipe
  <2>1. row' = row \/ (row' = NoRow /\ ~row.exists)
    BY <1>6 DEF Wipe
  <2> QED BY <1>0, <1>4, <1>6, <2>1 DEF Wipe
<1>7. ASSUME NEW p \in Pings, Read(p) \/ Check(p) \/ OpenRow(p) \/ Crash(p)
      PROVE  daily' + Pending(ping') = row'.total
  <2>1. \A q \in Pings \ {p} : ping'[q] = ping[q]
    BY <1>0, <1>7 DEF Read, Check, OpenRow, Crash
  <2>2. ping[p].seconds = 0
    BY <1>7 DEF Read, Check, OpenRow, Crash, OwesAfterCredit
  <2>3. ping'[p].seconds = 0
    <3>1. ping'[p].pc # "daily"
      <4>1. ping[p] \in Ping
        BY <1>0
      <4>2. CASE Read(p)
        BY <1>0, <4>2 DEF Read, Idle
      <4>3. CASE Check(p)
        <5>1. ping'[p] = Idle \/ ping'[p] = [ping[p] EXCEPT !.pc = "write", !.now = clock]
          BY <1>0, <4>3 DEF Check
        <5>2. [ping[p] EXCEPT !.pc = "write", !.now = clock].pc = "write"
          BY <4>1 DEF Ping
        <5>3. Idle.pc = "idle"
          BY DEF Idle
        <5> QED BY <5>1, <5>2, <5>3
      <4>4. CASE OpenRow(p) \/ Crash(p)
        BY <1>0, <4>4 DEF OpenRow, Crash, Idle
      <4> QED BY <1>7, <4>2, <4>3, <4>4
    <3> QED BY <3>1, OwesStep DEF OwesAfterCredit
  <2>4. Pending(ping') = Pending(ping)
    BY <1>0, <1>3, <2>1, <2>2, <2>3, PendingChange
  <2>5. daily' = daily /\ row'.total = row.total
    <3>1. CASE OpenRow(p)
      <4>1. row' = [row EXCEPT !.last = ping[p].now] \/ (row'.total = 0 /\ ~row.exists)
        BY <3>1 DEF OpenRow
      <4> QED BY <1>0, <3>1, <4>1 DEF OpenRow, Row, NoRow
    <3>2. CASE Read(p) \/ Check(p) \/ Crash(p)
      BY <3>2 DEF Read, Check, Crash
    <3> QED BY <1>7, <3>1, <3>2
  <2> QED BY <1>2, <2>4, <2>5
<1>8. ASSUME NEW p \in Pings, Credit(p)
      PROVE  daily' + Pending(ping') = row'.total
  <2>1. CASE NotAdvanced(ping[p].seen)
    <3>1. PICK halves \in 0 .. Creditable(ping[p].seen, ping[p].now) :
            /\ row' = [row EXCEPT !.total = @ + Rounded(halves), !.last = ping[p].now]
            /\ Become(p, IF halves > 0
                         THEN [ping[p] EXCEPT !.pc = "daily", !.seconds = Rounded(halves)]
                         ELSE Idle)
      BY <1>8, <2>1 DEF Credit
    <3>2. halves \in Nat /\ Rounded(halves) \in Nat /\ (halves = 0 => Rounded(halves) = 0)
      <4>1. halves \in Nat
        BY <3>1
      <4> QED BY <4>1, RoundedBound
    <3>3. \A q \in Pings \ {p} : ping'[q] = ping[q]
      BY <1>0, <3>1
    <3>4. ping[p] \in Ping /\ ping[p].seconds = 0
      BY <1>0, <1>8 DEF Credit, OwesAfterCredit
    <3>5. ping'[p].seconds = Rounded(halves)
      BY <1>0, <3>1, <3>2, <3>4 DEF Ping, Idle
    <3>6. /\ Pending(ping) \in Nat /\ Pending(ping') \in Nat
          /\ Pending(ping') + ping[p].seconds = Pending(ping) + ping'[p].seconds
      BY <1>0, <1>3, <3>3, PendingChange
    <3>7. row'.total = row.total + Rounded(halves) /\ daily' = daily
      BY <1>0, <1>8, <3>1 DEF Row, Credit
    <3> QED BY <1>0, <1>2, <3>2, <3>4, <3>5, <3>6, <3>7
  <2>2. CASE ~NotAdvanced(ping[p].seen)
    <3>1. Become(p, Idle) /\ UNCHANGED <<row, daily>>
      BY <1>8, <2>2 DEF Credit
    <3>2. \A q \in Pings \ {p} : ping'[q] = ping[q]
      BY <1>0, <3>1
    <3>3. ping[p].seconds = 0 /\ ping'[p].seconds = 0
      BY <1>0, <1>8, <3>1 DEF Credit, OwesAfterCredit, Idle
    <3>4. Pending(ping') = Pending(ping)
      BY <1>0, <1>3, <3>2, <3>3, PendingChange
    <3> QED BY <1>2, <3>1, <3>4
  <2> QED BY <2>1, <2>2
<1>9. ASSUME NEW p \in Pings, RollUp(p)
      PROVE  daily' + Pending(ping') = row'.total
  <2>1. \A q \in Pings \ {p} : ping'[q] = ping[q]
    BY <1>0, <1>9 DEF RollUp
  <2>2. ping'[p].seconds = 0 /\ ping[p].seconds \in Nat
    BY <1>0, <1>9 DEF RollUp, Idle, Ping
  <2>3. /\ Pending(ping) \in Nat /\ Pending(ping') \in Nat
        /\ Pending(ping') + ping[p].seconds = Pending(ping) + ping'[p].seconds
    BY <1>0, <1>3, <2>1, PendingChange
  <2>4. daily' = daily + ping[p].seconds /\ row' = row
    BY <1>9 DEF RollUp, RolledUp
  <2> QED BY <1>0, <1>2, <2>2, <2>3, <2>4
<1>10. CASE Tick \/ Complete \/ UNCHANGED vars \/ \E i \in Instances : Restart(i)
  BY <1>4, <1>10 DEF Tick, Complete, vars, Restart
<1> QED BY <1>5, <1>6, <1>7, <1>8, <1>9, <1>10 DEF Next

-----------------------------------------------------------------------------
\* The invariant holds at first.
LEMMA InvInit == Init => IInv
<1> SUFFICES ASSUME Init PROVE IInv
  OBVIOUS
<1>1. TypeOK /\ PingInPast /\ RowInPast /\ NoWindowTwice /\ OwesAfterCredit
  BY TypeInit, TimeAssumption
  DEF Init, PingInPast, RowInPast, NoWindowTwice, OwesAfterCredit, NoRow, Idle
<1>2. Agreement
  <2>1. Pending(ping) = 0
    BY <1>1, NothingPending DEF TypeOK, Init, Idle
  <2> QED BY <2>1 DEF Agreement, Init, NoRow
<1> QED BY <1>1, <1>2 DEF IInv

-----------------------------------------------------------------------------
\* Every reachable state satisfies the invariant: time stamps lie in the past, and
\* what is credited fits into the time since the row was opened (heartbeat) and is
\* owed to the day until it is rolled up (accrueDailyTime).
THEOREM Invariance == Spec => []IInv
<1>1. Init => IInv
  BY InvInit
<1>2. IInv /\ [Next]_vars => IInv'
  BY TypeStep, PastStep, RowStep, OwesStep, DayStep DEF IInv
<1> QED BY <1>1, <1>2, PTL DEF Spec

\* Every variable has its type, whatever pings, instances and resets do.
THEOREM TypeCorrect == Spec => []TypeOK
  BY Invariance, PTL DEF IInv

\* No stretch of time is credited twice, but for the time late opening pings turned
\* the row back by, however many pings overlap on however many instances with one
\* clock: the compare-and-set of heartbeat lets one of them credit it.
THEOREM CreditedOnce == Spec => []NoWindowTwice
  BY Invariance, PTL DEF IInv

\* The day's total and the section's agree but for what is about to be rolled up, in
\* whatever order pings credit and roll up, unless a roll-up was cut off or the row
\* deleted (heartbeat, accrueDailyTime).
THEOREM DayFollows == Spec => []DayAgrees
<1>1. IInv => DayAgrees
  BY DEF IInv, Agreement, DayAgrees, Pending
<1> QED BY <1>1, Invariance, PTL

-----------------------------------------------------------------------------
(* Assignments *)

\* A submission needs its assignment.
Hung == ~assignment.exists => ~submission.exists

\* A review under way carries no time of an upload.
Carries(r) == req[r].pc \in {"review", "lookup"} => req[r].at = 0

\* The upload that stands was told to the reviewer or will be.
TellsSubmitted(r) == req[r].pc = "tell" /\ req[r].at > 0 /\ req[r].at = submission.at
SubmittedTold ==
  ~cut /\ submission.exists =>
    \/ Submitted(submission.at) \in bells
    \/ \E r \in Slots : TellsSubmitted(r)

\* The review that stands was told to the student or will be.
TellsGraded(r) ==
  /\ req[r].pc \in {"lookup", "tell"} /\ req[r].at = 0
  /\ req[r].status = submission.status /\ req[r].score = submission.score
GradedTold ==
  ~cut /\ submission.exists /\ submission.reviewed =>
    \/ Graded(submission.status, submission.score) \in bells
    \/ \E r \in Slots : TellsGraded(r)

\* The inductive invariant.
BellInv == AssignmentTypeOK /\ Hung /\ (\A r \in Slots : Carries(r)) /\ SubmittedTold /\ GradedTold

USE DEF Doing, Becomes, rows

-----------------------------------------------------------------------------
\* A verdict is a status.
LEMMA VerdictStatus == Verdicts \subseteq Status
  BY AssignmentAssumption DEF Status

\* A request at rest is one.
LEMMA IdleRequest == NoRequest \in Request
  BY AssignmentAssumption DEF NoRequest, Request, Status, Score

\* What is told of a submission is a request, and the bell of its time.
LEMMA ToldRequest ==
  ASSUME NEW at \in Uploads
  PROVE  /\ ToldSubmitted(at) \in Request
         /\ ToldSubmitted(at).pc = "tell" /\ ToldSubmitted(at).at = at /\ at > 0
<1>1. at \in 0 .. MaxUploads /\ at > 0
  BY AssignmentAssumption DEF Uploads
<1>2. NoRequest \in Request
  BY IdleRequest
<1> QED BY <1>1, <1>2 DEF ToldSubmitted, SubmittedKey, Request

\* What stands after an upload is a submission.
LEMMA UploadedSubmission ==
  ASSUME NEW at \in Uploads
  PROVE  /\ Uploaded(at) \in Submission
         /\ Uploaded(at).exists /\ ~Uploaded(at).reviewed /\ Uploaded(at).at = at
<1>1. at \in 0 .. MaxUploads /\ "submitted" \in Status /\ None \in Score
  BY AssignmentAssumption DEF Uploads, Status, Score
<1> QED BY <1>1 DEF Submission, NoSubmission, Uploaded

\* What a request has to tell is a bell.
LEMMA BellType ==
  ASSUME NEW r \in Slots, req[r] \in Request
  PROVE  BellOf(r) \in Bell
<1>1. CASE req[r].at > 0
  <2>1. req[r].at \in Uploads
    BY <1>1, AssignmentAssumption DEF Request, Uploads
  <2> QED BY <1>1, <2>1 DEF BellOf, Bell
<1>2. CASE ~(req[r].at > 0)
  BY <1>2 DEF BellOf, Bell, Request
<1> QED BY <1>1, <1>2

-----------------------------------------------------------------------------
\* A step of one request that leaves a request behind keeps the table of them.
LEMMA BecomeType ==
  ASSUME NEW r \in Slots, NEW record \in Request, AssignmentTypeOK, Becomes(r, record)
  PROVE  /\ req' \in [Slots -> Request] /\ req'[r] = record
         /\ \A q \in Slots : q # r => req'[q] = req[q]
  BY DEF AssignmentTypeOK

\* Every step keeps the types, and what a request carries.
LEMMA RequestTypeStep ==
  AssignmentTypeOK /\ (\A r \in Slots : Carries(r)) /\ [AssignmentNext]_assignmentVars
    => AssignmentTypeOK' /\ \A r \in Slots : Carries(r)'
<1> SUFFICES ASSUME AssignmentTypeOK, \A r \in Slots : Carries(r), [AssignmentNext]_assignmentVars
             PROVE  AssignmentTypeOK' /\ \A r \in Slots : Carries(r)'
  OBVIOUS
<1> DEFINE Goal == AssignmentTypeOK' /\ \A r \in Slots : Carries(r)'
<1>0. /\ NoRequest \in Request /\ NoRequest.pc = "idle" /\ None \in Score
      /\ \A r \in Slots : req[r] \in Request
      /\ submission \in Submission /\ files \subseteq Uploads /\ bells \subseteq Bell
      /\ uploads \in 0 .. MaxUploads
  BY IdleRequest DEF AssignmentTypeOK, Score, NoRequest
<1>1. ASSUME NEW r \in Slots, NEW record \in Request, Becomes(r, record),
             record.pc \in {"review", "lookup"} => record.at = 0
      PROVE  req' \in [Slots -> Request] /\ \A q \in Slots : Carries(q)'
  BY <1>1, BecomeType DEF Carries
<1>2. CASE UpdateAssignment
  BY <1>2 DEF UpdateAssignment, AssignmentTypeOK, Carries
<1>3. CASE UNCHANGED assignmentVars
  BY <1>3 DEF assignmentVars, AssignmentTypeOK, Carries
<1>4. ASSUME NEW r \in Slots, CutOff(r) PROVE Goal
  BY <1>0, <1>1, <1>4 DEF CutOff, AssignmentTypeOK
<1>5. ASSUME NEW r \in Slots, SubmitRequest(r) PROVE Goal
  <2>1. PICK step \in {"create", "clear"} : Becomes(r, [NoRequest EXCEPT !.pc = step])
    BY <1>5 DEF SubmitRequest
  <2>2. [NoRequest EXCEPT !.pc = step] \in Request /\ [NoRequest EXCEPT !.pc = step].pc = step
    BY <1>0 DEF Request
  <2> QED BY <1>1, <1>5, <2>1, <2>2 DEF SubmitRequest, AssignmentTypeOK
<1>6. ASSUME NEW r \in Slots, Create(r) PROVE Goal
  <2>1. uploads + 1 \in Uploads /\ uploads + 1 \in 0 .. MaxUploads
    BY <1>0, <1>6, AssignmentAssumption DEF Create, Uploads
  <2>2. CASE assignment.exists /\ ~submission.exists
    <3>1. submission' \in Submission
      BY <1>6, <2>1, <2>2, UploadedSubmission DEF Create
    <3> QED BY <1>1, <1>6, <2>1, <2>2, <3>1, ToldRequest DEF Create, AssignmentTypeOK
  <2>3. CASE ~(assignment.exists /\ ~submission.exists)
    BY <1>0, <1>1, <1>6, <2>3 DEF Create, AssignmentTypeOK
  <2> QED BY <2>2, <2>3
<1>7. ASSUME NEW r \in Slots, Clear(r) PROVE Goal
  <2>1. /\ [req[r] EXCEPT !.pc = "replace", !.seen = files] \in Request
        /\ [req[r] EXCEPT !.pc = "replace", !.seen = files].pc = "replace"
    BY <1>0 DEF Request
  <2> QED BY <1>1, <1>7, <2>1 DEF Clear, AssignmentTypeOK
<1>8. ASSUME NEW r \in Slots, Replace(r) PROVE Goal
  <2>1. uploads + 1 \in Uploads /\ uploads + 1 \in 0 .. MaxUploads
    BY <1>0, <1>8, AssignmentAssumption DEF Replace, Uploads
  <2>2. CASE submission.exists
    <3>1. submission' \in Submission
      BY <1>8, <2>1, <2>2, UploadedSubmission DEF Replace
    <3> QED BY <1>0, <1>1, <1>8, <2>1, <2>2, <3>1, ToldRequest DEF Replace, AssignmentTypeOK
  <2>3. CASE ~submission.exists
    BY <1>0, <1>1, <1>8, <2>3 DEF Replace, AssignmentTypeOK
  <2> QED BY <2>2, <2>3
<1>9. ASSUME NEW r \in Slots, ReviewRequest(r) PROVE Goal
  <2>1. PICK status \in Verdicts : \E score \in ScoresFor(status) :
          Becomes(r, [NoRequest EXCEPT !.pc = "review", !.status = status, !.score = score])
    BY <1>9 DEF ReviewRequest
  <2>2. PICK score \in ScoresFor(status) :
          Becomes(r, [NoRequest EXCEPT !.pc = "review", !.status = status, !.score = score])
    BY <2>1
  <2>3. score \in Score /\ status \in Status
    BY <1>0, <2>2, VerdictStatus DEF ScoresFor, Score, Submission
  <2> DEFINE review == [NoRequest EXCEPT !.pc = "review", !.status = status, !.score = score]
  <2>4. review \in Request /\ review.pc = "review" /\ review.at = 0
    BY <1>0, <2>3 DEF Request, NoRequest
  <2> QED BY <1>1, <1>9, <2>2, <2>3, <2>4 DEF ReviewRequest, AssignmentTypeOK
<1>10. ASSUME NEW r \in Slots, ReviewWrite(r) PROVE Goal
  <2>1. CASE submission.exists
    <3> DEFINE changed == req[r].status # submission.status
               lookup  == [req[r] EXCEPT !.pc = "lookup", !.changed = changed]
    <3>1. req[r].at = 0
      BY <1>10 DEF ReviewWrite, Carries
    <3>2. lookup \in Request /\ lookup.pc = "lookup" /\ lookup.at = req[r].at
      BY <1>0 DEF Request
    <3>3. submission' \in Submission
      BY <1>0, <1>10, <2>1 DEF ReviewWrite, Submission, Request
    <3> QED BY <1>1, <1>10, <2>1, <3>1, <3>2, <3>3 DEF ReviewWrite, ToldReview, AssignmentTypeOK
  <2>2. CASE ~submission.exists
    BY <1>0, <1>1, <1>10, <2>2 DEF ReviewWrite, AssignmentTypeOK
  <2> QED BY <2>1, <2>2
<1>11. ASSUME NEW r \in Slots, Lookup(r) PROVE Goal
  <2> DEFINE tell == [req[r] EXCEPT !.pc = "tell"]
  <2>1. tell \in Request /\ tell.pc = "tell"
    BY <1>0 DEF Request
  <2> QED BY <1>0, <1>1, <1>11, <2>1 DEF Lookup, AssignmentTypeOK
<1>12. ASSUME NEW r \in Slots, Tell(r) PROVE Goal
  <2>1. BellOf(r) \in Bell
    BY <1>0, <1>12, BellType DEF Tell
  <2> QED BY <1>0, <1>1, <1>12, <2>1 DEF Tell, AssignmentTypeOK
<1>13. ASSUME NEW r \in Slots, DeleteRequest(r) PROVE Goal
  <2> DEFINE delete == [NoRequest EXCEPT !.pc = "delete", !.known = submission.exists]
  <2>1. delete \in Request /\ delete.pc = "delete"
    BY <1>0 DEF Request, Submission
  <2> QED BY <1>1, <1>13, <2>1 DEF DeleteRequest, AssignmentTypeOK
<1>14. ASSUME NEW r \in Slots, Delete(r) PROVE Goal
  <2>1. NoSubmission \in Submission
    BY <1>0, AssignmentAssumption DEF NoSubmission, Submission, Status
  <2>2. bells' \subseteq Bell
    BY <1>0, <1>14 DEF Delete
  <2> QED BY <1>0, <1>1, <1>14, <2>1, <2>2 DEF Delete, AssignmentTypeOK
<1> QED
  BY <1>2, <1>3, <1>4, <1>5, <1>6, <1>7, <1>8, <1>9, <1>10, <1>11, <1>12, <1>13, <1>14
     DEF AssignmentNext, Step

\* A submission goes with its assignment.
LEMMA HungStep == AssignmentTypeOK /\ Hung /\ [AssignmentNext]_assignmentVars => Hung'
<1> SUFFICES ASSUME AssignmentTypeOK, Hung, [AssignmentNext]_assignmentVars PROVE Hung'
  OBVIOUS
<1>1. CASE UpdateAssignment \/ UNCHANGED assignmentVars
  BY <1>1 DEF UpdateAssignment, assignmentVars, Hung
<1>2. ASSUME NEW r \in Slots, Step(r) PROVE Hung'
  <2>1. CASE Create(r)
    BY <2>1 DEF Create, Hung
  <2>2. CASE Replace(r)
    BY <2>2 DEF Replace, Hung
  <2>3. CASE ReviewWrite(r)
    BY <2>3 DEF ReviewWrite, Hung, AssignmentTypeOK, Submission
  <2>4. CASE Delete(r)
    BY <2>4 DEF Delete, Hung, NoSubmission
  <2>5. CASE \/ SubmitRequest(r) \/ Clear(r) \/ ReviewRequest(r) \/ Lookup(r)
             \/ Tell(r) \/ DeleteRequest(r) \/ CutOff(r)
    BY <2>5 DEF SubmitRequest, Clear, ReviewRequest, Lookup, Tell, DeleteRequest, CutOff, Hung
  <2> QED BY <1>2, <2>1, <2>2, <2>3, <2>4, <2>5 DEF Step
<1> QED BY <1>1, <1>2 DEF AssignmentNext
-----------------------------------------------------------------------------
\* What a submission has to tell the reviewer stays told, or still to be told.
LEMMA SubmittedStep ==
  AssignmentTypeOK /\ Hung /\ (\A r \in Slots : Carries(r)) /\ SubmittedTold /\
  [AssignmentNext]_assignmentVars
    => SubmittedTold'
<1> SUFFICES ASSUME AssignmentTypeOK, Hung, \A r \in Slots : Carries(r), SubmittedTold,
                    [AssignmentNext]_assignmentVars,
                    ~cut', submission'.exists
             PROVE  \/ Submitted(submission'.at) \in bells'
                    \/ \E q \in Slots : TellsSubmitted(q)'
  BY DEF SubmittedTold
<1>0. submission \in Submission /\ uploads \in Nat
  BY DEF AssignmentTypeOK
<1> DEFINE Told == \/ Submitted(submission.at) \in bells
                   \/ \E q \in Slots : TellsSubmitted(q)
\* A step that leaves the submission's time, the bells and the requests that tell.
<1>1. ASSUME submission'.at = submission.at, submission.exists, ~cut, bells \subseteq bells',
             NEW r \in Slots, ~Doing(r, "tell"),
             \A q \in Slots : q # r => req'[q] = req[q]
      PROVE  Submitted(submission'.at) \in bells' \/ \E q \in Slots : TellsSubmitted(q)'
  <2>1. Told
    BY <1>1 DEF SubmittedTold
  <2>2. ASSUME NEW q \in Slots, TellsSubmitted(q) PROVE TellsSubmitted(q)'
    <3>1. q # r
      BY <1>1, <2>2 DEF TellsSubmitted
    <3> QED BY <1>1, <2>2, <3>1 DEF TellsSubmitted
  <2> QED BY <1>1, <2>1, <2>2
<1>2. CASE UpdateAssignment \/ UNCHANGED assignmentVars
  BY <1>2 DEF UpdateAssignment, assignmentVars, SubmittedTold, TellsSubmitted
<1>3. ASSUME NEW r \in Slots, Create(r) \/ Replace(r)
      PROVE  Submitted(submission'.at) \in bells' \/ \E q \in Slots : TellsSubmitted(q)'
  <2>1. CASE uploads' = uploads + 1 /\ Becomes(r, ToldSubmitted(uploads + 1))
             /\ submission' = Uploaded(uploads + 1)
    <3>1. uploads + 1 \in Uploads
      BY <1>0, <1>3, AssignmentAssumption DEF Create, Replace, Uploads
    <3>2. req'[r] = ToldSubmitted(uploads + 1)
      BY <2>1, <3>1, ToldRequest, BecomeType
    <3> QED BY <2>1, <3>1, <3>2, ToldRequest, UploadedSubmission DEF TellsSubmitted
  <2>2. CASE submission' = submission /\ Becomes(r, NoRequest)
    <3>1. cut' = cut /\ bells' = bells /\ ~Doing(r, "tell")
      BY <1>3 DEF Create, Replace
    <3> QED BY <1>1, <2>2, <3>1, IdleRequest, BecomeType
  <2> QED BY <1>3, <2>1, <2>2 DEF Create, Replace
<1>4. ASSUME NEW r \in Slots, Tell(r)
      PROVE  Submitted(submission'.at) \in bells' \/ \E q \in Slots : TellsSubmitted(q)'
  <2>1. Told /\ submission' = submission /\ bells' = bells \cup {BellOf(r)}
    BY <1>4 DEF Tell, SubmittedTold
  <2>2. ASSUME NEW q \in Slots, TellsSubmitted(q), q # r PROVE TellsSubmitted(q)'
    <3>1. req'[q] = req[q]
      BY <1>4, <2>2, IdleRequest, BecomeType DEF Tell
    <3> QED BY <2>1, <2>2, <3>1 DEF TellsSubmitted
  <2>3. CASE TellsSubmitted(r)
    BY <2>1, <2>3 DEF TellsSubmitted, BellOf
  <2> QED BY <2>1, <2>2, <2>3
<1>5. ASSUME NEW r \in Slots, Delete(r)
      PROVE  Submitted(submission'.at) \in bells' \/ \E q \in Slots : TellsSubmitted(q)'
  <2>1. submission' = submission /\ bells' = bells /\ cut' = cut /\ Becomes(r, NoRequest)
    BY <1>5 DEF Delete, NoSubmission
  <2> QED BY <1>1, <1>5, <2>1, IdleRequest, BecomeType DEF Delete
<1>6. ASSUME NEW r \in Slots, CutOff(r)
      PROVE  Submitted(submission'.at) \in bells' \/ \E q \in Slots : TellsSubmitted(q)'
  <2>1. ~cut /\ ~Doing(r, "tell") /\ submission' = submission /\ bells' = bells /\ Becomes(r, NoRequest)
    BY <1>6 DEF CutOff
  <2> QED BY <1>1, <2>1, IdleRequest, BecomeType
<1>7. ASSUME NEW r \in Slots,
             \/ SubmitRequest(r) \/ Clear(r) \/ ReviewRequest(r) \/ ReviewWrite(r)
             \/ Lookup(r) \/ DeleteRequest(r)
      PROVE  Submitted(submission'.at) \in bells' \/ \E q \in Slots : TellsSubmitted(q)'
  <2>1. /\ cut' = cut /\ bells' = bells /\ ~Doing(r, "tell")
        /\ submission'.at = submission.at /\ submission'.exists = submission.exists
    BY <1>0, <1>7 DEF SubmitRequest, Clear, ReviewRequest, ReviewWrite, Lookup, DeleteRequest,
                      Submission
  <2>2. \A q \in Slots : q # r => req'[q] = req[q]
    BY <1>7 DEF SubmitRequest, Clear, ReviewRequest, ReviewWrite, Lookup, DeleteRequest, AssignmentTypeOK
  <2> QED BY <1>1, <2>1, <2>2
<1> QED BY <1>2, <1>3, <1>4, <1>5, <1>6, <1>7 DEF AssignmentNext, Step

\* So does what a review has to tell the student: as long as the submission is
\* there so is its assignment, and the request that wrote the review gets past the
\* look-up.
LEMMA GradedStep ==
  AssignmentTypeOK /\ Hung /\ (\A r \in Slots : Carries(r)) /\ GradedTold /\
  [AssignmentNext]_assignmentVars
    => GradedTold'
<1> SUFFICES ASSUME AssignmentTypeOK, Hung, \A r \in Slots : Carries(r), GradedTold,
                    [AssignmentNext]_assignmentVars,
                    ~cut', submission'.exists, submission'.reviewed
             PROVE  \/ Graded(submission'.status, submission'.score) \in bells'
                    \/ \E q \in Slots : TellsGraded(q)'
  BY DEF GradedTold
<1> DEFINE Goal == \/ Graded(submission'.status, submission'.score) \in bells'
                   \/ \E q \in Slots : TellsGraded(q)'
<1>0. submission \in Submission /\ uploads \in Nat
  BY DEF AssignmentTypeOK
\* A step that leaves the submission, the bells and the requests that tell.
<1>1. ASSUME submission' = submission, ~cut, bells \subseteq bells',
             NEW r \in Slots, req[r].pc \notin {"lookup", "tell"},
             \A q \in Slots : q # r => req'[q] = req[q]
      PROVE  Goal
  <2>1. \/ Graded(submission.status, submission.score) \in bells
        \/ \E q \in Slots : TellsGraded(q)
    BY <1>1 DEF GradedTold
  <2>2. ASSUME NEW q \in Slots, TellsGraded(q) PROVE TellsGraded(q)'
    <3>1. q # r
      BY <1>1, <2>2 DEF TellsGraded
    <3> QED BY <1>1, <2>2, <3>1 DEF TellsGraded
  <2> QED BY <1>1, <2>1, <2>2
<1>2. CASE UpdateAssignment \/ UNCHANGED assignmentVars
  BY <1>2 DEF UpdateAssignment, assignmentVars, GradedTold, TellsGraded
<1>3. ASSUME NEW r \in Slots, Create(r) \/ Replace(r) PROVE Goal
  <2>1. CASE submission' = Uploaded(uploads + 1) /\ uploads' = uploads + 1
    <3>1. uploads + 1 \in Uploads
      BY <1>0, <1>3, AssignmentAssumption DEF Create, Replace, Uploads
    <3> QED BY <2>1, <3>1, UploadedSubmission
  <2>2. CASE submission' = submission /\ Becomes(r, NoRequest)
    <3>1. req[r].pc \notin {"lookup", "tell"} /\ cut' = cut /\ bells' = bells
      BY <1>3 DEF Create, Replace
    <3> QED BY <1>1, <2>2, <3>1, IdleRequest, BecomeType
  <2> QED BY <1>3, <2>1, <2>2 DEF Create, Replace
<1>4. ASSUME NEW r \in Slots, ReviewWrite(r) PROVE Goal
  <2>1. submission.exists
    BY <1>4 DEF ReviewWrite
  <2>2. /\ submission'.status = req[r].status /\ submission'.score = req[r].score
    BY <1>0, <1>4, <2>1 DEF ReviewWrite, Submission
  <2>3. /\ req'[r].pc = "lookup" /\ req'[r].status = req[r].status
        /\ req'[r].score = req[r].score /\ req'[r].at = 0
    <3> DEFINE changed == req[r].status # submission.status
               lookup  == [req[r] EXCEPT !.pc = "lookup", !.changed = changed]
    <3>1. req[r] \in Request /\ Becomes(r, lookup)
      BY <1>4, <2>1 DEF ReviewWrite, ToldReview, AssignmentTypeOK
    <3>2. /\ lookup \in Request /\ lookup.pc = "lookup" /\ lookup.status = req[r].status
          /\ lookup.score = req[r].score /\ lookup.at = req[r].at
      BY <3>1 DEF Request
    <3>4. req[r].at = 0
      BY <1>4 DEF ReviewWrite, Carries
    <3>3. req'[r] = lookup
      BY <3>1, <3>2, BecomeType
    <3> QED BY <3>2, <3>3, <3>4
  <2> QED BY <2>2, <2>3 DEF TellsGraded
<1>5. ASSUME NEW r \in Slots, Lookup(r) PROVE Goal
  <2>1. submission' = submission /\ bells' = bells /\ cut' = cut
    BY <1>5 DEF Lookup
  <2>2. assignment.exists
    BY <2>1 DEF Hung
  <2>3. /\ req'[r].pc = "tell" /\ req'[r].status = req[r].status
        /\ req'[r].score = req[r].score /\ req'[r].at = req[r].at
        /\ \A q \in Slots : q # r => req'[q] = req[q]
    BY <1>5, <2>2 DEF Lookup, AssignmentTypeOK, Request
  <2>4. ASSUME NEW q \in Slots, TellsGraded(q) PROVE TellsGraded(q)'
    BY <2>1, <2>3, <2>4 DEF TellsGraded
  <2> QED BY <2>1, <2>4 DEF GradedTold
<1>6. ASSUME NEW r \in Slots, Tell(r) PROVE Goal
  <2>1. submission' = submission /\ bells' = bells \cup {BellOf(r)} /\ cut' = cut
    BY <1>6 DEF Tell
  <2>2. ASSUME NEW q \in Slots, TellsGraded(q), q # r PROVE TellsGraded(q)'
    <3>1. req'[q] = req[q]
      BY <1>6, <2>2, IdleRequest, BecomeType DEF Tell
    <3> QED BY <2>1, <2>2, <3>1 DEF TellsGraded
  <2>3. CASE TellsGraded(r)
    BY <2>1, <2>3 DEF TellsGraded, BellOf
  <2> QED BY <2>1, <2>2, <2>3 DEF GradedTold
<1>7. ASSUME NEW r \in Slots, Delete(r) PROVE Goal
  <2>1. submission' = submission /\ bells' = bells /\ cut' = cut /\ Becomes(r, NoRequest)
        /\ req[r].pc \notin {"lookup", "tell"}
    BY <1>7 DEF Delete, NoSubmission
  <2> QED BY <1>1, <2>1, IdleRequest, BecomeType
<1>8. ASSUME NEW r \in Slots, CutOff(r) PROVE Goal
  <2>1. ~cut /\ req[r].pc \notin {"lookup", "tell"} /\ submission' = submission
        /\ bells' = bells /\ Becomes(r, NoRequest)
    BY <1>8 DEF CutOff
  <2> QED BY <1>1, <2>1, IdleRequest, BecomeType
<1>9. ASSUME NEW r \in Slots,
             SubmitRequest(r) \/ Clear(r) \/ ReviewRequest(r) \/ DeleteRequest(r)
      PROVE  Goal
  <2>1. cut' = cut /\ bells' = bells /\ req[r].pc \notin {"lookup", "tell"}
        /\ submission' = submission
    BY <1>9 DEF SubmitRequest, Clear, ReviewRequest, DeleteRequest
  <2>2. \A q \in Slots : q # r => req'[q] = req[q]
    BY <1>9 DEF SubmitRequest, Clear, ReviewRequest, DeleteRequest, AssignmentTypeOK
  <2> QED BY <1>1, <2>1, <2>2
<1> QED BY <1>2, <1>3, <1>4, <1>5, <1>6, <1>7, <1>8, <1>9 DEF AssignmentNext, Step

\* The invariant holds at first.
LEMMA BellInvInit == AssignmentInit => BellInv
<1> SUFFICES ASSUME AssignmentInit PROVE BellInv
  OBVIOUS
<1>1. NoSubmission \in Submission /\ ~NoSubmission.exists /\ 0 \in 0 .. MaxUploads
  BY AssignmentAssumption DEF NoSubmission, Submission, Status, Score
<1>2. AssignmentTypeOK
  BY <1>1, IdleRequest DEF AssignmentInit, AssignmentTypeOK
<1>3. \A r \in Slots : Carries(r)
  BY DEF AssignmentInit, Carries, NoRequest
<1> QED BY <1>1, <1>2, <1>3 DEF AssignmentInit, BellInv, Hung, SubmittedTold, GradedTold

-----------------------------------------------------------------------------
\* Every reachable state satisfies the invariant: a submission goes with its
\* assignment, and what stands is told or still to be told, unless a request was
\* cut off (createSubmission, reviewSubmission).
THEOREM BellInvariance == AssignmentSpec => []BellInv
<1>1. AssignmentInit => BellInv
  BY BellInvInit
<1>2. BellInv /\ [AssignmentNext]_assignmentVars => BellInv'
  BY RequestTypeStep, HungStep, SubmittedStep, GradedStep DEF BellInv
<1> QED BY <1>1, <1>2, PTL DEF AssignmentSpec

\* Every variable has its type.
THEOREM AssignmentTypeCorrect == AssignmentSpec => []AssignmentTypeOK
  BY BellInvariance, PTL DEF BellInv

\* The reviewer hears of the upload that stands, however many resubmissions race
\* (the key of notifyAssignmentSubmitted carries the time).
THEOREM ReviewerTold == AssignmentSpec => []ReviewerHears
<1>1. BellInv => ReviewerHears
  BY DEF BellInv, SubmittedTold, TellsSubmitted, ReviewerHears, Quiet
<1> QED BY <1>1, BellInvariance, PTL

\* The student hears of the review that stands, however many reviews race
\* (the key of notifyAssignmentGraded carries the status and the score).
THEOREM StudentTold == AssignmentSpec => []StudentHears
<1>1. BellInv => StudentHears
  BY DEF BellInv, GradedTold, TellsGraded, StudentHears, Quiet
<1> QED BY <1>1, BellInvariance, PTL
=============================================================================
