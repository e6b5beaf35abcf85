--------------------------- MODULE AttemptLifecycle ---------------------------
(***************************************************************************)
(* What the learner and the administrators may rely on, whatever happens    *)
(* inside the server: an attempt only ever moves forward, from open, to      *)
(* submitted, reviewed and final (or from open to expired), and the result   *)
(* shown changes only when the attempt is published or finalised.  That is    *)
(* promised for an attempt until it is contested: two reviews of it, or a     *)
(* review and a failed submit, have met.  A contested attempt may show        *)
(* anything but that it never was.                                            *)
(***************************************************************************)
CONSTANTS Attempts, Null

VARIABLES
  stage,    \* how far each attempt has come
  result,   \* the pass/fail shown for it, Null while there is none
  contested \* the attempts for which nothing more is promised

vars == <<stage, result, contested>>

Result    == BOOLEAN \cup {Null}
Published == {"submitted", "reviewed", "final"}
Stage     == {"none", "open", "expired"} \cup Published

Init ==
  /\ stage = [a \in Attempts |-> "none"]
  /\ result = [a \in Attempts |-> Null]
  /\ contested = {}

Move(a, next, shown) ==
  /\ stage' = [stage EXCEPT ![a] = next]
  /\ result' = [result EXCEPT ![a] = shown]
  /\ UNCHANGED contested

Start(a)  == stage[a] = "none" /\ Move(a, "open", Null)
Expire(a) == stage[a] = "open" /\ Move(a, "expired", Null)

\* A grading that overtakes the end of the submit publishes the attempt
\* directly as reviewed or final.
Publish(a) ==
  stage[a] = "open" /\ \E s \in Published, p \in Result : Move(a, s, p)

Review(a) ==
  stage[a] \in {"submitted", "reviewed"} /\ Move(a, "reviewed", result[a])

Finalize(a) ==
  stage[a] \in {"submitted", "reviewed"} /\ \E p \in BOOLEAN : Move(a, "final", p)

\* A contested attempt moves, or becomes contested and moves.
Contest(a) ==
  /\ stage[a] # "none" /\ contested' = contested \cup {a}
  /\ \E s \in Stage \ {"none"}, p \in Result :
       /\ stage' = [stage EXCEPT ![a] = s]
       /\ result' = [result EXCEPT ![a] = p]

Next ==
  \E a \in Attempts :
    \/ Start(a) \/ Expire(a) \/ Publish(a) \/ Review(a) \/ Finalize(a)
    \/ Contest(a)

Spec == Init /\ [][Next]_vars
=============================================================================
