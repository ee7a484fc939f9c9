---------------------------- MODULE StepwiseRuns ----------------------------
(***************************************************************************)
(* What pipeline runs promise.  A run makes its steps one after the other, *)
(* each of them once.  It goes on after a step that was completed, and     *)
(* after one that failed if that step is tolerated.  A step may fail       *)
(* before it has begun; then the run may be stuck, whatever is tolerated,  *)
(* and nothing but a person ends it.  Where a run has ended says how: all  *)
(* steps were completed, all have ended, one that is not tolerated failed, *)
(* or somebody cancelled it.  An event moves one run.                      *)
(***************************************************************************)
EXTENDS Naturals

CONSTANTS
    Runs,
    Length     \* number of steps of a run

VARIABLES
    phase,     \* "none", "running", "stuck", "deleted", or how the run ended
    tolerant,  \* the steps whose failure does not stop the run
    outcome    \* of each step: "open", "completed" or "failed"

runs == <<phase, tolerant, outcome>>

Turns == 1..Length
Results == {"completed", "failed"}

Init ==
    /\ phase = [r \in Runs |-> "none"]
    /\ tolerant = [r \in Runs |-> {}]
    /\ outcome = [r \in Runs |-> [i \in Turns |-> "open"]]

Moves(r, from, to) == phase[r] = from /\ phase'[r] = to
StepsKept(r) == tolerant'[r] = tolerant[r] /\ outcome'[r] = outcome[r]

\* The steps before step i have ended, those after it have not begun.
InTurn(r, i) == \A j \in Turns : outcome[r][j] = "open" <=> j >= i

\* After such an end of step i there is no reason to stop.
Tolerated(r, i, result) == result = "completed" \/ i \in tolerant[r]

\* Steps end with these results, and no others.
End(r, results) ==
    /\ tolerant'[r] = tolerant[r]
    /\ outcome'[r] = [j \in Turns |-> IF j \in DOMAIN results THEN results[j] ELSE outcome[r][j]]

Start(r) ==
    /\ Moves(r, "none", "running")
    /\ tolerant'[r] \subseteq Turns
    /\ outcome'[r] = [i \in Turns |-> "open"]

StepEnds(r, i, result) ==
    /\ Moves(r, "running", "running")
    /\ InTurn(r, i) /\ i < Length
    /\ Tolerated(r, i, result)
    /\ End(r, [j \in {i} |-> result])

LastStepEnds(r, i, result) ==
    /\ InTurn(r, i) /\ i = Length
    /\ Tolerated(r, i, result)
    /\ End(r, [j \in {i} |-> result])
    /\ Moves(r, "running", IF \A j \in Turns : outcome'[r][j] = "completed"
                           THEN "completed" ELSE "completed_with_errors")

\* A step fails that must not fail.
Stops(r, i) ==
    /\ Moves(r, "running", "failed")
    /\ InTurn(r, i) /\ i \notin tolerant[r]
    /\ End(r, [j \in {i} |-> "failed"])

\* The step in turn cannot be begun.
CannotBegin(r, i) ==
    /\ Moves(r, "running", "stuck")
    /\ InTurn(r, i)
    /\ End(r, [j \in {i} |-> "failed"])

\* A step ends, and the one after it cannot be begun.
NextCannotBegin(r, i, result) ==
    /\ \/ Moves(r, "running", "stuck")
       \/ Moves(r, "running", "failed") /\ i + 1 \notin tolerant[r]
    /\ InTurn(r, i) /\ i < Length
    /\ Tolerated(r, i, result)
    /\ End(r, [j \in {i, i + 1} |-> IF j = i THEN result ELSE "failed"])

Cancel(r) ==
    /\ Moves(r, "running", "cancelled") \/ Moves(r, "stuck", "cancelled")
    /\ StepsKept(r)

Delete(r) ==
    /\ phase[r] \notin {"none", "deleted"}
    /\ phase'[r] = "deleted"
    /\ StepsKept(r)

Next ==
    \E r \in Runs :
        /\ \/ Start(r) \/ Cancel(r) \/ Delete(r)
           \/ \E i \in Turns : Stops(r, i) \/ CannotBegin(r, i)
           \/ \E i \in Turns, result \in Results :
                \/ StepEnds(r, i, result)
                \/ LastStepEnds(r, i, result)
                \/ NextCannotBegin(r, i, result)
        /\ \A q \in Runs \ {r} : phase'[q] = phase[q] /\ StepsKept(q)

Spec == Init /\ [][Next]_runs
=============================================================================
