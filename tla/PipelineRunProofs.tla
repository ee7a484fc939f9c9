------------------------- MODULE PipelineRunProofs -------------------------
(***************************************************************************)
(* Proofs about PipelineRun, for any runs, steps and bounds: what holds    *)
(* however handlers interleave, and what holds as long as no event slips   *)
(* in between the import and the spawn (ImportYields = FALSE).             *)
(***************************************************************************)
EXTENDS PipelineRun, TLAPS

---------------------------------------------------------------------------
(* The inductive invariant: however the handlers interleave *)

Ended == {"completed", "failed"}

\* Steps before one that runs have ended.
Sequential(steps) ==
    \A i \in Steps : steps[i] = "running" => \A j \in Steps : j < i => steps[j] \in Ended

\* Neither a row nor the copy of a parked handler runs two steps at once.
StepsSequential ==
    /\ \A r \in Runs : run[r].status = "running" => Sequential(run[r].steps)
    /\ \A c \in Parked : Sequential(calls[c].steps)

---------------------------------------------------------------------------
(* The inductive invariant: when no event slips in *)

\* The steps before step i ended well enough to go on, those after it wait.
Reached(steps, policy, i) ==
    /\ \A j \in Steps : j < i => \/ steps[j] = "completed"
                                 \/ steps[j] = "failed" /\ policy[j] = "continue"
    /\ \A j \in Steps : j > i => steps[j] = "pending"

OneParked == \A c, d \in Parked : c = d

\* The parked handler holds what the row is to become, of a run that is running.
ParkedIsAhead ==
    \A c \in Parked :
        LET call == calls[c]
            row == run[call.run]
        IN  /\ row.status = "running"
            /\ call.steps[call.step] = "running"
            /\ Reached(call.steps, row.policy, call.step)
            /\ row.cur <= call.step
            /\ ~call.writesBack => row.cur = call.step
            /\ \A k \in children : k.run = call.run => k.step < call.step

\* A step has one process, and no step after the current one has any.
ChildrenBehind ==
    /\ \A k \in children :
         /\ run[k.run].status # "absent"
         /\ run[k.run].status = "running" => k.step <= run[k.run].cur
    /\ \A k, l \in children : k.run = l.run /\ k.step = l.step => k = l

\* The process of a step that runs can be signalled.
RunningIsTracked ==
    \A k \in children :
        /\ k.watched /\ k.hasPid
        /\ run[k.run].status = "running" /\ run[k.run].steps[k.step] = "running"
        => tracked[<<k.run, k.step>>] = k.id

Undisturbed ==
    /\ OneParked /\ ParkedIsAhead /\ ChildrenBehind /\ RunningIsTracked
    /\ StepsInOrder /\ OutcomeMatchesSteps /\ CancelReachesProcesses

IInv ==
    /\ TypeOK /\ TrackedPidsAreLive /\ StepsSequential
    /\ ~ImportYields => Undisturbed

---------------------------------------------------------------------------
(* Rows, parked handlers and what is made of them *)

LEMMA RowFields ==
    ASSUME NEW row \in Row
    PROVE  /\ row.status \in RunStatus /\ row.cur \in Steps /\ row.cur \in Nat
           /\ row.steps \in [Steps -> StepStatus]
           /\ row.policy \in [Steps -> {"stop", "continue"}]
           /\ row.auto \in BOOLEAN /\ row.linked \in BOOLEAN
BY PipelineAssumption DEF Row, Steps

LEMMA ChildFields ==
    ASSUME NEW k \in Child
    PROVE  /\ k.id \in 1..MaxSpawns /\ k.run \in Runs /\ k.step \in Steps /\ k.step \in Nat
           /\ k.hasPid \in BOOLEAN /\ k.watched \in BOOLEAN /\ k.killed \in BOOLEAN
BY PipelineAssumption DEF Child, Steps

LEMMA CallFields ==
    ASSUME NEW call \in Call
    PROVE  /\ call.run \in Runs /\ call.step \in Steps /\ call.step \in Nat
           /\ call.steps \in [Steps -> StepStatus] /\ call.writesBack \in BOOLEAN
BY PipelineAssumption DEF Call, Steps

LEMMA Types ==
    ASSUME TypeOK
    PROVE  /\ \A r \in Runs : run[r] \in Row
           /\ \A k \in children : k \in Child
           /\ \A c \in Parked : c \in Calls /\ calls[c] \in Call
BY DEF TypeOK, Parked

LEMMA NoCallIsNone == \A call \in Call : call # NoCall
<1> SUFFICES ASSUME NEW call \in Call, call = NoCall PROVE FALSE
  OBVIOUS
<1>1. "run" \in DOMAIN call
  BY DEF Call
<1>2. DOMAIN NoCall = {"none"}
  BY DEF NoCall
<1>3. QED
  BY <1>1, <1>2

\* The three outcomes of a step: the run stops, it is through, or it goes on.
LEMMA AfterStepIs ==
    ASSUME NEW row \in Row, NEW i \in Steps, NEW ok \in BOOLEAN
    PROVE  LET next == AfterStep(row, i, ok)
               end == IF ok THEN "completed" ELSE "failed"
           IN  /\ next \in Row
               /\ next.policy = row.policy /\ next.auto = row.auto /\ next.linked = row.linked
               /\ \/ /\ ~ok /\ row.policy[i] = "stop"
                     /\ next.status = "failed" /\ next.cur = i
                     /\ next.steps[i] = "failed"
                     /\ \A j \in Steps : j > i => next.steps[j] = "skipped"
                     /\ \A j \in Steps : j < i => next.steps[j] = row.steps[j]
                  \/ /\ ok \/ row.policy[i] = "continue"
                     /\ i = StepCount
                     /\ next.status = FinalStatus(next.steps) /\ next.cur = i
                     /\ next.steps[i] = end
                     /\ \A j \in Steps \ {i} : next.steps[j] = row.steps[j]
                  \/ /\ ok \/ row.policy[i] = "continue"
                     /\ i + 1 \in Steps
                     /\ next.status = row.status /\ next.cur = i + 1
                     /\ next.steps[i] = end /\ next.steps[i + 1] = "running"
                     /\ \A j \in Steps \ {i, i + 1} : next.steps[j] = row.steps[j]
<1> DEFINE end == IF ok THEN "completed" ELSE "failed"
<1> DEFINE next == AfterStep(row, i, ok)
<1> DEFINE done == [row.steps EXCEPT ![i] = end]
<1>0. /\ i \in Nat /\ StepCount \in Nat /\ i >= 1 /\ i <= StepCount
      /\ row.steps \in [Steps -> StepStatus] /\ row.policy[i] \in {"stop", "continue"}
  BY RowFields, PipelineAssumption DEF Steps
<1>1. done \in [Steps -> StepStatus] /\ done[i] = end /\ \A j \in Steps \ {i} : done[j] = row.steps[j]
  BY <1>0 DEF StepStatus
<1>2. CASE ~ok /\ row.policy[i] = "stop"
  <2>1. next = [row EXCEPT !.status = "failed", !.cur = i, !.steps = SkipAfter(done, i)]
    BY <1>2 DEF AfterStep
  <2>2. SkipAfter(done, i) \in [Steps -> StepStatus]
    BY <1>1 DEF SkipAfter, StepStatus
  <2>3. next \in Row /\ next.status = "failed" /\ next.cur = i /\ next.steps = SkipAfter(done, i)
        /\ next.policy = row.policy /\ next.auto = row.auto /\ next.linked = row.linked
    BY <2>1, <2>2 DEF Row, RunStatus, Terminal
  <2>4. /\ SkipAfter(done, i)[i] = end
        /\ \A j \in Steps : j > i => SkipAfter(done, i)[j] = "skipped"
        /\ \A j \in Steps : j < i => SkipAfter(done, i)[j] = row.steps[j]
    BY <1>0, <1>1 DEF SkipAfter, Steps
  <2>5. QED
    BY <1>2, <2>3, <2>4
<1>3. CASE (ok \/ row.policy[i] # "stop") /\ i = StepCount
  <2>1. next = [row EXCEPT !.status = FinalStatus(done), !.cur = i, !.steps = done]
    BY <1>3 DEF AfterStep
  <2>2. FinalStatus(done) \in RunStatus
    BY DEF FinalStatus, RunStatus, Terminal
  <2> HIDE DEF done
  <2>3. next \in Row /\ next.status = FinalStatus(done) /\ next.cur = i /\ next.steps = done
        /\ next.policy = row.policy /\ next.auto = row.auto /\ next.linked = row.linked
    BY <1>1, <2>1, <2>2 DEF Row
  <2>4. QED
    BY <1>0, <1>1, <1>3, <2>3
<1>4. CASE (ok \/ row.policy[i] # "stop") /\ i # StepCount
  <2> DEFINE after == [done EXCEPT ![i + 1] = "running"]
  <2>1. next = [row EXCEPT !.cur = i + 1, !.steps = after]
    BY <1>4 DEF AfterStep
  <2>2. i + 1 \in Steps /\ i + 1 # i
    BY <1>0, <1>4 DEF Steps
  <2> HIDE DEF done
  <2>3. /\ after \in [Steps -> StepStatus]
        /\ after[i] = end /\ after[i + 1] = "running"
        /\ \A j \in Steps \ {i, i + 1} : after[j] = row.steps[j]
    BY <1>1, <2>2 DEF StepStatus
  <2> HIDE DEF after
  <2>4. next \in Row /\ next.status = row.status /\ next.cur = i + 1 /\ next.steps = after
        /\ next.policy = row.policy /\ next.auto = row.auto /\ next.linked = row.linked
    BY <2>1, <2>2, <2>3 DEF Row
  <2>5. QED
    BY <1>0, <1>4, <2>2, <2>3, <2>4
<1>5. QED
  BY <1>2, <1>3, <1>4

LEMMA ParkIs ==
    ASSUME TypeOK, NEW r \in Runs, NEW i \in Steps, NEW steps \in [Steps -> StepStatus],
           NEW writesBack \in BOOLEAN, Park(r, i, steps, writesBack)
    PROVE  /\ calls' \in [Calls -> Call \cup {NoCall}]
           /\ \E c \in Calls \ Parked :
                /\ calls'[c].run = r /\ calls'[c].step = i
                /\ calls'[c].steps = steps /\ calls'[c].writesBack = writesBack
                /\ Parked' = Parked \cup {c}
                /\ \A d \in Parked : calls'[d] = calls[d]
<1> DEFINE call == [run |-> r, step |-> i, steps |-> steps, writesBack |-> writesBack]
<1>1. PICK c \in Calls \ Parked : calls' = [calls EXCEPT ![c] = call]
  BY DEF Park
<1>2. call \in Call /\ call # NoCall
  BY NoCallIsNone DEF Call
<1>3. /\ call.run = r /\ call.step = i /\ call.steps = steps /\ call.writesBack = writesBack
  OBVIOUS
<1> HIDE DEF call
<1>4. calls'[c] = call /\ \A d \in Calls \ {c} : calls'[d] = calls[d]
  BY <1>1 DEF TypeOK
<1>5. Parked' = Parked \cup {c}
  BY <1>2, <1>4 DEF Parked
<1>6. QED
  BY <1>1, <1>2, <1>3, <1>4, <1>5 DEF TypeOK, Parked

LEMMA UnparkIs ==
    ASSUME TypeOK, NEW c \in Parked, Unpark(c)
    PROVE  /\ calls' \in [Calls -> Call \cup {NoCall}]
           /\ Parked' = Parked \ {c}
           /\ \A d \in Parked' : calls'[d] = calls[d]
<1>1. calls'[c] = NoCall /\ \A d \in Calls \ {c} : calls'[d] = calls[d]
  BY DEF TypeOK, Unpark, Parked
<1>2. QED
  BY <1>1 DEF TypeOK, Unpark, Parked

LEMMA StoreIs ==
    ASSUME TypeOK, NEW call \in Call, NEW steps \in [Steps -> StepStatus],
           NEW status \in RunStatus, Store(call, steps, status)
    PROVE  /\ run' \in [Runs -> Row]
           /\ \A r \in Runs \ {call.run} : run'[r] = run[r]
           /\ run[call.run].status = "deleted" => run'[call.run] = run[call.run]
           /\ run[call.run].status # "deleted" =>
                /\ run'[call.run].status = status /\ run'[call.run].steps = steps
                /\ run'[call.run].cur = IF call.writesBack THEN call.step ELSE run[call.run].cur
                /\ run'[call.run].policy = run[call.run].policy
<1> DEFINE r == call.run
<1> DEFINE new == [run[r] EXCEPT !.steps = steps, !.status = status,
                                 !.cur = IF call.writesBack THEN call.step ELSE run[r].cur]
<1>1. r \in Runs /\ run[r] \in Row /\ call.step \in Steps
  BY CallFields, Types
<1>2. CASE run[r].status = "deleted"
  <2>1. run' = run
    BY <1>2 DEF Store
  <2>2. QED
    BY <1>2, <2>1 DEF TypeOK
<1>3. CASE run[r].status # "deleted"
  <2>1. run' = [run EXCEPT ![r] = new]
    BY <1>1, <1>3 DEF Store, TypeOK, Row
  <2>2. /\ new \in Row
        /\ new.status = status /\ new.steps = steps /\ new.policy = run[r].policy
        /\ new.cur = IF call.writesBack THEN call.step ELSE run[r].cur
    BY <1>1 DEF Row
  <2> HIDE DEF new
  <2>3. QED
    BY <1>1, <1>3, <2>1, <2>2 DEF TypeOK
<1>4. QED
  BY <1>2, <1>3

---------------------------------------------------------------------------
(* However the handlers interleave *)

\* What a step may do: a finished run stays finished, and a task goes to review
\* with a run that is through.
StaysFinished == \A r \in Runs : run[r].status \in Terminal => run'[r].status # "running"
ReviewIsEarned ==
    task' = "quality_review" /\ task # "quality_review" =>
        \E r \in Runs :
            /\ run[r].linked
            /\ run[r].status = "running"
            /\ run'[r].status \in {"completed", "completed_with_errors"}
            /\ \A i \in Steps : run'[r].steps[i] \in {"completed", "failed"}

Allowed == StaysFinished /\ ReviewIsEarned

\* The part of the invariant that does not ask when imports resolve
Always == TypeOK /\ TrackedPidsAreLive /\ StepsSequential

LEMMA SequentialAfter ==
    ASSUME NEW row \in Row, NEW i \in Steps, NEW ok \in BOOLEAN,
           row.status = "running", row.steps[i] = "running", Sequential(row.steps)
    PROVE  LET next == AfterStep(row, i, ok)
           IN  /\ next.status \in {"running", "failed", "completed", "completed_with_errors"}
               /\ next.status = "running" => Sequential(next.steps)
               /\ next.status \in {"completed", "completed_with_errors"} =>
                    \A j \in Steps : next.steps[j] \in Ended
<1> DEFINE next == AfterStep(row, i, ok)
<1> DEFINE end == IF ok THEN "completed" ELSE "failed"
<1> DEFINE through == /\ i = StepCount
                      /\ next.status = FinalStatus(next.steps)
                      /\ next.steps[i] = end
                      /\ \A j \in Steps \ {i} : next.steps[j] = row.steps[j]
<1> DEFINE goesOn == /\ i + 1 \in Steps
                     /\ next.status = row.status
                     /\ next.steps[i] = end /\ next.steps[i + 1] = "running"
                     /\ \A j \in Steps \ {i, i + 1} : next.steps[j] = row.steps[j]
<1>0. /\ i \in Nat /\ StepCount \in Nat /\ Steps \subseteq Nat /\ i <= StepCount
      /\ \A j \in Steps : j <= StepCount
      /\ end \in Ended /\ end # "running" /\ "running" \notin Ended
  BY PipelineAssumption DEF Steps, Ended
<1>1. /\ \A j \in Steps : j < i => row.steps[j] \in Ended
      /\ \A j \in Steps : j # i => row.steps[j] # "running"
  <2>1. \A j \in Steps : j < i => row.steps[j] \in Ended
    BY DEF Sequential
  <2>2. \A j \in Steps : j > i => row.steps[j] # "running"
    BY <1>0 DEF Sequential
  <2>3. QED
    BY <1>0, <2>1, <2>2
<1>2. CASE next.status = "failed"
  BY <1>2
<1>3. CASE through
  <2>1. \A j \in Steps : next.steps[j] \in Ended
    BY <1>0, <1>1, <1>3
  <2>2. next.status \in {"completed", "completed_with_errors"}
    BY <1>3 DEF FinalStatus
  <2> HIDE DEF next
  <2>3. QED
    BY <2>1, <2>2 DEF next
<1>4. CASE goesOn
  <2> HIDE DEF next, end
  <2>1. \A j \in Steps : next.steps[j] = "running" => j = i + 1
    BY <1>0, <1>1, <1>4
  <2>2. \A j \in Steps : j < i + 1 => next.steps[j] \in Ended
    BY <1>0, <1>1, <1>4
  <2>3. Sequential(next.steps)
    BY <2>1, <2>2 DEF Sequential
  <2>4. QED
    BY <1>4, <2>3 DEF next
<1>5. next.status = "failed" \/ through \/ goesOn
  BY AfterStepIs
<1>6. QED
  BY <1>2, <1>3, <1>4, <1>5

\* The end of a step, as handleStepExit and advanceRun handle it
Ends(r, i, ok) ==
    LET next == AfterStep(run[r], i, ok)
    IN  /\ \/ /\ run' = [run EXCEPT ![r] = next]
              /\ \/ UNCHANGED calls
                 \/ next.status = "running" /\ Park(r, next.cur, next.steps, FALSE)
           \/ /\ next.status = "running"
              /\ UNCHANGED run
              /\ Park(r, next.cur, next.steps, TRUE)
        /\ OnPipelineFinished(next)

LEMMA EndsAlways ==
    ASSUME Always, NEW r \in Runs, NEW i \in Steps, NEW ok \in BOOLEAN,
           run[r].status = "running", run[r].steps[i] = "running", Ends(r, i, ok)
    PROVE  /\ run' \in [Runs -> Row]
           /\ calls' \in [Calls -> Call \cup {NoCall}]
           /\ task' \in {"other", "in_progress", "quality_review"}
           /\ StepsSequential'
           /\ Allowed
<1> USE DEF Always
<1> DEFINE next == AfterStep(run[r], i, ok)
<1>1. run[r] \in Row /\ Sequential(run[r].steps)
  BY Types DEF StepsSequential
<1>2. /\ next \in Row /\ next.linked = run[r].linked
      /\ next.status \in {"running", "failed", "completed", "completed_with_errors"}
      /\ next.status = "running" => Sequential(next.steps)
      /\ next.status \in {"completed", "completed_with_errors"} =>
           \A j \in Steps : next.steps[j] \in Ended
  BY <1>1, AfterStepIs, SequentialAfter
<1>3. /\ \/ /\ run' = [run EXCEPT ![r] = next]
            /\ \/ UNCHANGED calls
               \/ next.status = "running" /\ Park(r, next.cur, next.steps, FALSE)
         \/ /\ next.status = "running"
            /\ UNCHANGED run
            /\ Park(r, next.cur, next.steps, TRUE)
      /\ OnPipelineFinished(next)
  BY DEF Ends
<1> HIDE DEF next
<1>4. next.cur \in Steps /\ next.steps \in [Steps -> StepStatus]
  BY <1>2, RowFields
<1>5. /\ calls' \in [Calls -> Call \cup {NoCall}]
      /\ \A c \in Parked' : Sequential(calls'[c].steps)
  <2>1. CASE UNCHANGED calls
    BY <2>1 DEF TypeOK, StepsSequential, Parked
  <2>2. CASE \E w \in BOOLEAN : next.status = "running" /\ Park(r, next.cur, next.steps, w)
    <3>1. PICK w \in BOOLEAN : next.status = "running" /\ Park(r, next.cur, next.steps, w)
      BY <2>2
    <3>2. PICK c \in Calls \ Parked :
            /\ calls'[c].steps = next.steps
            /\ Parked' = Parked \cup {c}
            /\ \A d \in Parked : calls'[d] = calls[d]
      BY <1>4, <3>1, ParkIs
    <3>3. calls' \in [Calls -> Call \cup {NoCall}]
      BY <1>4, <3>1, ParkIs
    <3>4. QED
      BY <1>2, <3>1, <3>2, <3>3 DEF StepsSequential
  <2>3. QED
    BY <1>3, <2>1, <2>2
<1>6. /\ run' \in [Runs -> Row]
      /\ \A s \in Runs \ {r} : run'[s] = run[s]
      /\ run'[r] = next \/ (run'[r] = run[r] /\ next.status = "running")
  BY <1>2, <1>3 DEF TypeOK
<1>7. StepsSequential'
  <2>1. \A s \in Runs : run'[s].status = "running" => Sequential(run'[s].steps)
    BY <1>1, <1>2, <1>6 DEF StepsSequential
  <2>2. QED
    BY <1>5, <2>1 DEF StepsSequential, Sequential
<1>8. task' \in {"other", "in_progress", "quality_review"}
  BY <1>3 DEF OnPipelineFinished, TypeOK
<1>9. StaysFinished
  BY <1>6 DEF StaysFinished, Terminal
<1>10. ReviewIsEarned
  <2> SUFFICES ASSUME task' = "quality_review", task # "quality_review"
               PROVE  /\ run[r].linked
                      /\ run'[r].status \in {"completed", "completed_with_errors"}
                      /\ \A j \in Steps : run'[r].steps[j] \in Ended
    BY DEF ReviewIsEarned, Ended
  <2>1. next.linked /\ next.status \in Terminal /\ next.status # "failed"
    BY <1>2, <1>3 DEF OnPipelineFinished
  <2>2. next.status \in {"completed", "completed_with_errors"} /\ run'[r] = next
    BY <1>2, <1>6, <2>1 DEF Terminal
  <2>3. QED
    BY <1>2, <2>1, <2>2
<1>11. QED
  BY <1>5, <1>6, <1>7, <1>8, <1>9, <1>10 DEF Allowed

\* Nothing but an entry that is forgotten, or a child that is not the tracked one
LEMMA TrackedStay ==
    ASSUME Always,
           \A r \in Runs, i \in Steps :
             \/ tracked'[<<r, i>>] = 0
             \/ /\ tracked'[<<r, i>>] = tracked[<<r, i>>]
                /\ \A k \in children : k.run = r /\ k.step = i /\ k.hasPid /\ k.watched =>
                     \E l \in children' : l.id = k.id /\ l.run = r /\ l.step = i /\ l.hasPid /\ l.watched
    PROVE  TrackedPidsAreLive'
<1> SUFFICES ASSUME NEW r \in Runs, NEW i \in Steps, tracked'[<<r, i>>] # 0
             PROVE  \E l \in children' : /\ l.id = tracked'[<<r, i>>]
                                         /\ l.run = r /\ l.step = i /\ l.hasPid /\ l.watched
  BY DEF TrackedPidsAreLive
<1>1. tracked'[<<r, i>>] = tracked[<<r, i>>]
  OBVIOUS
<1>2. PICK k \in children : k.id = tracked[<<r, i>>] /\ k.run = r /\ k.step = i /\ k.hasPid /\ k.watched
  BY <1>1 DEF Always, TrackedPidsAreLive
<1>3. \E l \in children' : l.id = k.id /\ l.run = r /\ l.step = i /\ l.hasPid /\ l.watched
  BY <1>1, <1>2
<1>4. QED
  BY <1>1, <1>2, <1>3

LEMMA StartAlways ==
    ASSUME Always, NEW r \in Runs, NEW policy \in [Steps -> {"stop", "continue"}],
           NEW auto \in BOOLEAN, NEW linked \in BOOLEAN, StartPipeline(r, policy, auto, linked)
    PROVE  Always' /\ Allowed
<1> USE DEF Always
<1> DEFINE first == [i \in Steps |-> IF i = 1 THEN "running" ELSE "pending"]
<1> DEFINE row == [status |-> "running", cur |-> 1, steps |-> first,
                   policy |-> policy, auto |-> auto, linked |-> linked]
<1>1. /\ run[r].status = "absent" /\ run' = [run EXCEPT ![r] = row]
      /\ Park(r, 1, row.steps, FALSE) \/ UNCHANGED calls
      /\ task' = IF linked THEN "in_progress" ELSE task
      /\ UNCHANGED <<templates, children, tracked, spawns, crashes>>
  BY DEF StartPipeline
<1>2. 1 \in Steps /\ first \in [Steps -> StepStatus]
  BY PipelineAssumption DEF Steps, StepStatus
<1>3. row \in Row /\ row.status = "running" /\ row.steps = first
  BY <1>2 DEF Row, RunStatus
<1>4. Sequential(first)
  BY PipelineAssumption DEF Sequential, Steps
<1> HIDE DEF first, row
<1>5. /\ calls' \in [Calls -> Call \cup {NoCall}]
      /\ \A c \in Parked' : Sequential(calls'[c].steps)
  <2>1. CASE UNCHANGED calls
    BY <2>1 DEF TypeOK, StepsSequential, Parked
  <2>2. CASE Park(r, 1, row.steps, FALSE)
    <3>0. PICK w \in BOOLEAN : Park(r, 1, row.steps, w)
      BY <2>2
    <3>1. PICK c \in Calls \ Parked :
            /\ calls'[c].steps = row.steps
            /\ Parked' = Parked \cup {c}
            /\ \A d \in Parked : calls'[d] = calls[d]
      BY <1>2, <1>3, <3>0, ParkIs
    <3>2. calls' \in [Calls -> Call \cup {NoCall}]
      BY <1>2, <1>3, <2>2, ParkIs
    <3>3. QED
      BY <1>3, <1>4, <3>1, <3>2 DEF StepsSequential
  <2>3. QED
    BY <1>1, <2>1, <2>2
<1>6. run' \in [Runs -> Row] /\ run'[r] = row /\ \A s \in Runs \ {r} : run'[s] = run[s]
  BY <1>1, <1>3 DEF TypeOK
<1>7. TypeOK'
  BY <1>1, <1>5, <1>6 DEF TypeOK
<1>8. TrackedPidsAreLive'
  BY <1>1, TrackedStay
<1>9. StepsSequential'
  BY <1>3, <1>4, <1>5, <1>6 DEF StepsSequential, Sequential
<1>10. Allowed
  BY <1>1, <1>6 DEF Allowed, StaysFinished, ReviewIsEarned, Terminal
<1>11. QED
  BY <1>7, <1>8, <1>9, <1>10

LEMMA AdvanceEnds ==
    ASSUME NEW r \in Runs, NEW ok \in BOOLEAN, AdvanceRun(r, ok)
    PROVE  Ends(r, run[r].cur, ok)
BY DEF AdvanceRun, Ends

LEMMA AdvanceAlways ==
    ASSUME Always, NEW r \in Runs, NEW ok \in BOOLEAN, AdvanceRun(r, ok)
    PROVE  Always' /\ Allowed
<1>1. /\ run[r].status = "running" /\ run[r].steps[run[r].cur] = "running"
      /\ run[r].cur \in Steps
      /\ UNCHANGED <<templates, children, tracked, spawns, crashes>>
  BY Types, RowFields DEF AdvanceRun, Always
<1>2. /\ run' \in [Runs -> Row]
      /\ calls' \in [Calls -> Call \cup {NoCall}]
      /\ task' \in {"other", "in_progress", "quality_review"}
      /\ StepsSequential'
      /\ Allowed
  BY <1>1, AdvanceEnds, EndsAlways
<1>3. TypeOK'
  BY <1>1, <1>2 DEF Always, TypeOK
<1>4. TrackedPidsAreLive'
  BY <1>1, TrackedStay
<1>5. QED
  BY <1>2, <1>3, <1>4 DEF Always

\* A run is given a status that is not running, or nothing happens to it.
LEMMA Unstarted ==
    ASSUME Always,
           \A r \in Runs : run'[r] = run[r] \/ run'[r].status \in {"cancelled", "deleted"},
           task' = task,
           \A c \in Parked' : c \in Parked /\ calls'[c] = calls[c]
    PROVE  StepsSequential' /\ Allowed
<1>1. StepsSequential'
  BY DEF Always, StepsSequential, Sequential
<1>2. Allowed
  BY DEF Allowed, StaysFinished, ReviewIsEarned, Terminal
<1>3. QED
  BY <1>1, <1>2

\* What CancelRun does with the running steps of r and their processes
Live(r) == {i \in Steps : run[r].steps[i] = "running"}
Hit(r) == {tracked[<<r, i>>] : i \in Live(r)}
Signalled(r, k) == [k EXCEPT !.killed = k.killed \/ k.id \in Hit(r)]

LEMMA CancelIs ==
    ASSUME TypeOK, NEW r \in Runs, CancelRun(r)
    PROVE  /\ run' \in [Runs -> Row]
           /\ run[r].status = "running" /\ run'[r].status = "cancelled"
           /\ \A i \in Steps : run'[r].steps[i] = IF run[r].steps[i] \in {"running", "pending"}
                                                 THEN "skipped" ELSE run[r].steps[i]
           /\ \A s \in Runs \ {r} : run'[s] = run[s]
           /\ children' = {Signalled(r, k) : k \in children}
           /\ \A k \in children :
                /\ Signalled(r, k) \in Child
                /\ Signalled(r, k).id = k.id /\ Signalled(r, k).run = k.run
                /\ Signalled(r, k).step = k.step /\ Signalled(r, k).hasPid = k.hasPid
                /\ Signalled(r, k).watched = k.watched
                /\ k.killed => Signalled(r, k).killed
                /\ k.id \in Hit(r) => Signalled(r, k).killed
           /\ tracked' \in [Runs \X Steps -> 0..MaxSpawns]
           /\ \A s \in Runs, i \in Steps :
                tracked'[<<s, i>>] = IF s = r /\ i \in Live(r) THEN 0 ELSE tracked[<<s, i>>]
           /\ UNCHANGED <<templates, task, calls, spawns, crashes>>
<1> DEFINE left == [i \in Steps |-> IF run[r].steps[i] \in {"running", "pending"}
                                    THEN "skipped" ELSE run[r].steps[i]]
<1> DEFINE new == [run[r] EXCEPT !.status = "cancelled", !.steps = left]
<1>1. /\ run[r].status = "running"
      /\ run' = [run EXCEPT ![r].status = "cancelled", ![r].steps = left]
      /\ children' = {Signalled(r, k) : k \in children}
      /\ tracked' = [x \in Runs \X Steps |-> IF x[1] = r /\ x[2] \in Live(r) THEN 0 ELSE tracked[x]]
      /\ UNCHANGED <<templates, task, calls, spawns, crashes>>
  BY DEF CancelRun, Signalled, Hit, Live
<1>2. run[r] \in Row
  BY Types
<1>3. left \in [Steps -> StepStatus]
  BY <1>2, RowFields DEF StepStatus
<1>4. \A i \in Steps : left[i] = IF run[r].steps[i] \in {"running", "pending"}
                                  THEN "skipped" ELSE run[r].steps[i]
  OBVIOUS
<1> HIDE DEF left
<1>5. new \in Row /\ new.status = "cancelled" /\ new.steps = left
  BY <1>2, <1>3 DEF Row, RunStatus, Terminal
<1>6. run' = [run EXCEPT ![r] = new]
  BY <1>1, <1>2 DEF TypeOK, Row
<1> HIDE DEF new
<1>7. /\ run' \in [Runs -> Row] /\ run'[r].status = "cancelled" /\ run'[r].steps = left
      /\ \A s \in Runs \ {r} : run'[s] = run[s]
  BY <1>5, <1>6 DEF TypeOK
<1>8. ASSUME NEW k \in children
      PROVE  /\ Signalled(r, k) \in Child
             /\ Signalled(r, k).id = k.id /\ Signalled(r, k).run = k.run
             /\ Signalled(r, k).step = k.step /\ Signalled(r, k).hasPid = k.hasPid
             /\ Signalled(r, k).watched = k.watched
             /\ k.killed => Signalled(r, k).killed
             /\ k.id \in Hit(r) => Signalled(r, k).killed
  <2>1. k \in Child /\ (k.killed \/ k.id \in Hit(r)) \in BOOLEAN
    BY Types
  <2>2. QED
    BY <2>1 DEF Child, Signalled
<1>9. /\ tracked' \in [Runs \X Steps -> 0..MaxSpawns]
      /\ \A s \in Runs, i \in Steps :
           tracked'[<<s, i>>] = IF s = r /\ i \in Live(r) THEN 0 ELSE tracked[<<s, i>>]
  BY <1>1, PipelineAssumption DEF TypeOK
<1>10. QED
  BY <1>1, <1>4, <1>7, <1>8, <1>9

LEMMA CancelAlways ==
    ASSUME Always, NEW r \in Runs, CancelRun(r)
    PROVE  Always' /\ Allowed
<1> USE DEF Always
<1>1. /\ run' \in [Runs -> Row] /\ run'[r].status = "cancelled"
      /\ \A s \in Runs \ {r} : run'[s] = run[s]
      /\ children' = {Signalled(r, k) : k \in children}
      /\ \A k \in children :
           /\ Signalled(r, k) \in Child
           /\ Signalled(r, k).id = k.id /\ Signalled(r, k).run = k.run
           /\ Signalled(r, k).step = k.step /\ Signalled(r, k).hasPid = k.hasPid
           /\ Signalled(r, k).watched = k.watched
      /\ tracked' \in [Runs \X Steps -> 0..MaxSpawns]
      /\ \A s \in Runs, i \in Steps :
           tracked'[<<s, i>>] = 0 \/ tracked'[<<s, i>>] = tracked[<<s, i>>]
      /\ UNCHANGED <<templates, task, calls, spawns, crashes>>
  BY CancelIs
<1>2. TypeOK'
  BY <1>1 DEF TypeOK
<1>3. TrackedPidsAreLive'
  BY <1>1, TrackedStay
<1>4. StepsSequential' /\ Allowed
  BY <1>1, Unstarted DEF Parked
<1>5. QED
  BY <1>2, <1>3, <1>4

LEMMA DeleteTemplateAlways ==
    ASSUME Always, NEW i \in Steps, DeleteTemplate(i)
    PROVE  Always' /\ Allowed
<1> USE DEF Always
<1>1. UNCHANGED <<run, task, children, tracked, calls, spawns, crashes>>
      /\ templates' = templates \ {i}
  BY DEF DeleteTemplate
<1>2. TypeOK' /\ TrackedPidsAreLive'
  BY <1>1 DEF TypeOK, TrackedPidsAreLive
<1>3. StepsSequential' /\ Allowed
  BY <1>1, Unstarted DEF Parked
<1>4. QED
  BY <1>2, <1>3

LEMMA DeletePipelineAlways ==
    ASSUME Always, NEW r \in Runs, DeletePipeline(r)
    PROVE  Always' /\ Allowed
<1> USE DEF Always
<1> DEFINE new == [run[r] EXCEPT !.status = "deleted"]
<1>1. /\ run' = [run EXCEPT ![r].status = "deleted"]
      /\ UNCHANGED <<templates, task, children, tracked, calls, spawns, crashes>>
  BY DEF DeletePipeline
<1>2. new \in Row /\ new.status = "deleted"
  BY Types DEF Row, RunStatus
<1>3. run' = [run EXCEPT ![r] = new]
  BY <1>1 DEF TypeOK
<1> HIDE DEF new
<1>4. run' \in [Runs -> Row] /\ run'[r].status = "deleted" /\ \A s \in Runs \ {r} : run'[s] = run[s]
  BY <1>2, <1>3 DEF TypeOK
<1>5. TypeOK' /\ TrackedPidsAreLive'
  BY <1>1, <1>4 DEF TypeOK, TrackedPidsAreLive
<1>6. StepsSequential' /\ Allowed
  BY <1>1, <1>4, Unstarted DEF Parked
<1>7. QED
  BY <1>5, <1>6

LEMMA StoredAlways ==
    ASSUME Always, NEW c \in Parked, Unpark(c), task' = task,
           NEW steps \in [Steps -> StepStatus], NEW status \in RunStatus,
           Store(calls[c], steps, status),
           status \in {run[calls[c].run].status, "failed"},
           status = "running" => Sequential(steps)
    PROVE  /\ run' \in [Runs -> Row]
           /\ calls' \in [Calls -> Call \cup {NoCall}]
           /\ StepsSequential'
           /\ Allowed
<1> USE DEF Always
<1> DEFINE r == calls[c].run
<1>1. calls[c] \in Call /\ r \in Runs
  BY Types, CallFields
<1>2. /\ calls' \in [Calls -> Call \cup {NoCall}]
      /\ \A d \in Parked' : d \in Parked /\ calls'[d] = calls[d]
  BY UnparkIs
<1>3. /\ run' \in [Runs -> Row]
      /\ \A s \in Runs \ {r} : run'[s] = run[s]
      /\ run[r].status = "deleted" => run'[r] = run[r]
      /\ run[r].status # "deleted" => run'[r].status = status /\ run'[r].steps = steps
  BY <1>1, StoreIs
<1>4. StepsSequential'
  BY <1>2, <1>3 DEF StepsSequential, Sequential
<1>5. Allowed
  BY <1>3 DEF Allowed, StaysFinished, ReviewIsEarned, Terminal
<1>6. QED
  BY <1>2, <1>3, <1>4, <1>5

\* What SpawnSucceeds does with processes
SpawnedChild(c, found) ==
    [id |-> spawns + 1, run |-> calls[c].run, step |-> calls[c].step,
     hasPid |-> found, watched |-> TRUE, killed |-> FALSE]

LEMMA SpawnIs ==
    ASSUME TypeOK, NEW c \in Parked, SpawnSucceeds(c)
    PROVE  /\ Store(calls[c], calls[c].steps, run[calls[c].run].status)
           /\ Unpark(c)
           /\ UNCHANGED <<templates, task, crashes>>
           /\ spawns' = spawns + 1 /\ spawns' \in 1..MaxSpawns
           /\ tracked' \in [Runs \X Steps -> 0..MaxSpawns]
           /\ \E k \in Child :
                /\ children' = children \cup {k}
                /\ k.id = spawns + 1 /\ k.run = calls[c].run /\ k.step = calls[c].step
                /\ k.watched /\ ~k.killed
                /\ k.hasPid => tracked'[<<k.run, k.step>>] = k.id
                /\ \A r \in Runs, i \in Steps :
                     ~(r = k.run /\ i = k.step) \/ ~k.hasPid =>
                       tracked'[<<r, i>>] = tracked[<<r, i>>]
<1>1. PICK found \in BOOLEAN :
        /\ children' = children \cup {SpawnedChild(c, found)}
        /\ tracked' = IF found THEN [tracked EXCEPT ![<<calls[c].run, calls[c].step>>] = spawns + 1]
                               ELSE tracked
        /\ spawns' = spawns + 1
        /\ Store(calls[c], calls[c].steps, run[calls[c].run].status)
  BY DEF SpawnSucceeds, SpawnedChild
<1>2. spawns < MaxSpawns /\ Unpark(c) /\ UNCHANGED <<templates, task, crashes>>
  BY DEF SpawnSucceeds
<1> DEFINE k == SpawnedChild(c, found)
<1>3. spawns + 1 \in 1..MaxSpawns
  BY <1>2, PipelineAssumption DEF TypeOK
<1>4. calls[c].run \in Runs /\ calls[c].step \in Steps
  BY Types, CallFields
<1>5. /\ k \in Child /\ k.id = spawns + 1 /\ k.run = calls[c].run /\ k.step = calls[c].step
      /\ k.watched /\ ~k.killed /\ k.hasPid = found
  BY <1>3, <1>4 DEF SpawnedChild, Child
<1> HIDE DEF k
<1>6. tracked' \in [Runs \X Steps -> 0..MaxSpawns]
  BY <1>1, <1>3, <1>4 DEF TypeOK
<1>7. found => tracked'[<<k.run, k.step>>] = k.id
  BY <1>1, <1>4, <1>5 DEF TypeOK
<1>8. \A r \in Runs, i \in Steps :
        ~(r = k.run /\ i = k.step) \/ ~found => tracked'[<<r, i>>] = tracked[<<r, i>>]
  BY <1>1, <1>4, <1>5 DEF TypeOK
<1>9. k.hasPid <=> found
  BY <1>5
<1>10. children' = children \cup {k}
  BY <1>1 DEF k
<1>11. QED
  BY <1>1, <1>2, <1>3, <1>5, <1>6, <1>7, <1>8, <1>9, <1>10

LEMMA SpawnSucceedsAlways ==
    ASSUME Always, NEW c \in Calls, SpawnSucceeds(c)
    PROVE  Always' /\ Allowed
<1> USE DEF Always
<1>1. c \in Parked
  BY DEF SpawnSucceeds
<1>2. calls[c] \in Call /\ calls[c].run \in Runs /\ calls[c].steps \in [Steps -> StepStatus]
  BY <1>1, Types, CallFields
<1>3. run[calls[c].run].status \in RunStatus /\ Sequential(calls[c].steps)
  BY <1>1, <1>2, Types, RowFields DEF StepsSequential
<1>4. /\ Store(calls[c], calls[c].steps, run[calls[c].run].status) /\ Unpark(c)
      /\ UNCHANGED <<templates, task, crashes>>
      /\ spawns' = spawns + 1 /\ spawns' \in 1..MaxSpawns
      /\ tracked' \in [Runs \X Steps -> 0..MaxSpawns]
  BY <1>1, SpawnIs
<1>5. PICK k \in Child :
        /\ children' = children \cup {k}
        /\ k.id = spawns + 1 /\ k.run = calls[c].run /\ k.step = calls[c].step
        /\ k.watched /\ ~k.killed
        /\ k.hasPid => tracked'[<<k.run, k.step>>] = k.id
        /\ \A r \in Runs, i \in Steps :
             ~(r = k.run /\ i = k.step) \/ ~k.hasPid => tracked'[<<r, i>>] = tracked[<<r, i>>]
  BY <1>1, SpawnIs
<1>6. /\ run' \in [Runs -> Row]
      /\ calls' \in [Calls -> Call \cup {NoCall}]
      /\ StepsSequential'
      /\ Allowed
  BY <1>1, <1>2, <1>3, <1>4, StoredAlways
<1>7. TypeOK'
  BY <1>4, <1>5, <1>6, PipelineAssumption DEF TypeOK
<1>8. TrackedPidsAreLive'
  <2> SUFFICES ASSUME NEW r \in Runs, NEW i \in Steps, tracked'[<<r, i>>] # 0
               PROVE  \E l \in children' : /\ l.id = tracked'[<<r, i>>]
                                           /\ l.run = r /\ l.step = i /\ l.hasPid /\ l.watched
    BY DEF TrackedPidsAreLive
  <2>1. CASE r = k.run /\ i = k.step /\ k.hasPid
    BY <1>5, <2>1
  <2>2. CASE ~(r = k.run /\ i = k.step) \/ ~k.hasPid
    <3>1. tracked'[<<r, i>>] = tracked[<<r, i>>]
      BY <1>5, <2>2
    <3>2. PICK l \in children : /\ l.id = tracked[<<r, i>>]
                                /\ l.run = r /\ l.step = i /\ l.hasPid /\ l.watched
      BY <3>1 DEF TrackedPidsAreLive
    <3>3. QED
      BY <1>5, <3>1, <3>2
  <2>3. QED
    BY <2>1, <2>2
<1>9. QED
  BY <1>6, <1>7, <1>8

\* The catch block of spawnStep
LEMMA ThrowIs ==
    ASSUME TypeOK, NEW c \in Parked, SpawnThrows(c)
    PROVE  LET call == calls[c]
               row == run[call.run]
               failed == [call.steps EXCEPT ![call.step] = "failed"]
           IN  /\ failed \in [Steps -> StepStatus]
               /\ SkipAfter(failed, call.step) \in [Steps -> StepStatus]
               /\ Unpark(c)
               /\ \/ /\ row.policy[call.step] = "stop"
                     /\ Store(call, SkipAfter(failed, call.step), "failed")
                  \/ Store(call, failed, row.status)
               /\ UNCHANGED <<templates, task, children, tracked, spawns, crashes>>
<1> DEFINE call == calls[c]
<1> DEFINE failed == [call.steps EXCEPT ![call.step] = "failed"]
<1>1. call.step \in Steps /\ call.steps \in [Steps -> StepStatus]
  BY Types, CallFields
<1>2. failed \in [Steps -> StepStatus]
  BY <1>1 DEF StepStatus
<1> HIDE DEF failed
<1>3. SkipAfter(failed, call.step) \in [Steps -> StepStatus]
  BY <1>2 DEF SkipAfter, StepStatus
<1>4. QED
  BY <1>2, <1>3 DEF SpawnThrows, failed

LEMMA SpawnThrowsAlways ==
    ASSUME Always, NEW c \in Calls, SpawnThrows(c)
    PROVE  Always' /\ Allowed
<1> USE DEF Always
<1> DEFINE call == calls[c]
<1> DEFINE failed == [call.steps EXCEPT ![call.step] = "failed"]
<1>1. c \in Parked
  BY DEF SpawnThrows
<1>2. /\ call \in Call /\ call.run \in Runs /\ call.step \in Steps
      /\ call.steps \in [Steps -> StepStatus] /\ Sequential(call.steps)
      /\ run[call.run].status \in RunStatus /\ "failed" \in RunStatus
  BY <1>1, Types, CallFields, RowFields DEF StepsSequential, RunStatus, Terminal
<1>3. Sequential(failed)
  BY <1>2 DEF Sequential, Ended
<1>4. /\ failed \in [Steps -> StepStatus]
      /\ SkipAfter(failed, call.step) \in [Steps -> StepStatus]
      /\ Unpark(c)
      /\ \/ Store(call, SkipAfter(failed, call.step), "failed")
         \/ Store(call, failed, run[call.run].status)
      /\ UNCHANGED <<templates, task, children, tracked, spawns, crashes>>
  BY <1>1, ThrowIs
<1> HIDE DEF failed
<1>5. /\ run' \in [Runs -> Row]
      /\ calls' \in [Calls -> Call \cup {NoCall}]
      /\ StepsSequential'
      /\ Allowed
  <2>1. CASE Store(call, SkipAfter(failed, call.step), "failed")
    BY <1>1, <1>2, <1>4, <2>1, StoredAlways
  <2>2. CASE Store(call, failed, run[call.run].status)
    BY <1>1, <1>2, <1>3, <1>4, <2>2, StoredAlways
  <2>3. QED
    BY <1>4, <2>1, <2>2
<1>6. TypeOK'
  BY <1>4, <1>5 DEF TypeOK
<1>7. TrackedPidsAreLive'
  BY <1>4, TrackedStay
<1>8. QED
  BY <1>5, <1>6, <1>7

LEMMA ExitIs ==
    ASSUME TypeOK, NEW k \in children, NEW ok \in BOOLEAN, ChildExits(k, ok)
    PROVE  /\ k.run \in Runs /\ k.step \in Steps
           /\ children' = children \ {k}
           /\ tracked' \in [Runs \X Steps -> 0..MaxSpawns]
           /\ k.watched => tracked'[<<k.run, k.step>>] = 0
           /\ \A r \in Runs, i \in Steps :
                ~(r = k.run /\ i = k.step /\ k.watched) => tracked'[<<r, i>>] = tracked[<<r, i>>]
           /\ UNCHANGED <<templates, spawns, crashes>>
           /\ \/ UNCHANGED <<run, task, calls>>
              \/ /\ run[k.run].status = "running" /\ run[k.run].steps[k.step] = "running"
                 /\ Ends(k.run, k.step, ok)
<1>1. k.run \in Runs /\ k.step \in Steps
  BY Types, ChildFields
<1>2. /\ children' = children \ {k}
      /\ tracked' = IF k.watched THEN [tracked EXCEPT ![<<k.run, k.step>>] = 0] ELSE tracked
      /\ UNCHANGED <<templates, spawns, crashes>>
  BY DEF ChildExits
<1>3. HandleStepExit(k.run, k.step, ok) \/ UNCHANGED <<run, task, calls>>
  BY DEF ChildExits
<1>4. \/ UNCHANGED <<run, task, calls>>
      \/ /\ run[k.run].status = "running" /\ run[k.run].steps[k.step] = "running"
         /\ Ends(k.run, k.step, ok)
  BY <1>3 DEF HandleStepExit, Ends
<1>5. tracked' \in [Runs \X Steps -> 0..MaxSpawns]
  BY <1>1, <1>2, PipelineAssumption DEF TypeOK
<1>6. /\ k.watched => tracked'[<<k.run, k.step>>] = 0
      /\ \A r \in Runs, i \in Steps :
           ~(r = k.run /\ i = k.step /\ k.watched) => tracked'[<<r, i>>] = tracked[<<r, i>>]
  BY <1>1, <1>2 DEF TypeOK
<1>7. QED
  BY <1>1, <1>2, <1>4, <1>5, <1>6

LEMMA ExitAlways ==
    ASSUME Always, NEW k \in children, NEW ok \in BOOLEAN, ChildExits(k, ok)
    PROVE  Always' /\ Allowed
<1> USE DEF Always
<1>1. /\ k.run \in Runs /\ k.step \in Steps
      /\ children' = children \ {k}
      /\ tracked' \in [Runs \X Steps -> 0..MaxSpawns]
      /\ k.watched => tracked'[<<k.run, k.step>>] = 0
      /\ \A r \in Runs, i \in Steps :
           ~(r = k.run /\ i = k.step /\ k.watched) => tracked'[<<r, i>>] = tracked[<<r, i>>]
      /\ UNCHANGED <<templates, spawns, crashes>>
  BY ExitIs
<1>2. /\ run' \in [Runs -> Row]
      /\ calls' \in [Calls -> Call \cup {NoCall}]
      /\ task' \in {"other", "in_progress", "quality_review"}
      /\ StepsSequential'
      /\ Allowed
  <2>1. CASE UNCHANGED <<run, task, calls>>
    <3>1. StepsSequential' /\ Allowed
      BY <2>1, Unstarted DEF Parked
    <3>2. QED
      BY <2>1, <3>1 DEF TypeOK
  <2>2. CASE /\ run[k.run].status = "running" /\ run[k.run].steps[k.step] = "running"
             /\ Ends(k.run, k.step, ok)
    BY <1>1, <2>2, EndsAlways
  <2>3. QED
    BY <2>1, <2>2, ExitIs
<1>3. TypeOK'
  BY <1>1, <1>2 DEF TypeOK
<1>4. TrackedPidsAreLive'
  <2> SUFFICES ASSUME NEW r \in Runs, NEW i \in Steps
               PROVE  \/ tracked'[<<r, i>>] = 0
                      \/ /\ tracked'[<<r, i>>] = tracked[<<r, i>>]
                         /\ \A l \in children : l.run = r /\ l.step = i /\ l.hasPid /\ l.watched =>
                              l \in children'
    BY TrackedStay
  <2>1. CASE r = k.run /\ i = k.step /\ k.watched
    BY <1>1, <2>1
  <2>2. CASE ~(r = k.run /\ i = k.step /\ k.watched)
    BY <1>1, <2>2
  <2>3. QED
    BY <2>1, <2>2
<1>5. QED
  BY <1>2, <1>3, <1>4

LEMMA CrashIs ==
    ASSUME TypeOK, Crash
    PROVE  /\ Parked' = {} /\ UNCHANGED <<run, templates, task, spawns>>
           /\ calls' \in [Calls -> Call \cup {NoCall}]
           /\ tracked' \in [Runs \X Steps -> 0..MaxSpawns]
           /\ \A r \in Runs, i \in Steps : tracked'[<<r, i>>] = 0
           /\ crashes' \in 0..MaxCrashes
           /\ \A l \in children' :
                /\ l \in Child /\ ~l.watched
                /\ \E k \in children : l = [k EXCEPT !.watched = FALSE] /\ l.run = k.run /\ l.step = k.step
<1>1. /\ UNCHANGED <<run, templates, task, spawns>>
      /\ crashes < MaxCrashes /\ crashes' = crashes + 1
      /\ calls' = [c \in Calls |-> NoCall]
      /\ tracked' = [x \in Runs \X Steps |-> 0]
      /\ children' = {[k EXCEPT !.watched = FALSE] : k \in children}
  BY DEF Crash
<1>2. Parked' = {} /\ calls' \in [Calls -> Call \cup {NoCall}]
  BY <1>1 DEF Parked
<1>3. /\ tracked' \in [Runs \X Steps -> 0..MaxSpawns]
      /\ \A r \in Runs, i \in Steps : tracked'[<<r, i>>] = 0
      /\ crashes' \in 0..MaxCrashes
  BY <1>1, PipelineAssumption DEF TypeOK
<1>4. ASSUME NEW k \in children
      PROVE  LET l == [k EXCEPT !.watched = FALSE]
             IN  l \in Child /\ ~l.watched /\ l.run = k.run /\ l.step = k.step
  BY Types DEF Child
<1>5. QED
  BY <1>1, <1>2, <1>3, <1>4

LEMMA CrashAlways ==
    ASSUME Always, Crash
    PROVE  Always' /\ Allowed
<1> USE DEF Always
<1>1. TypeOK'
  BY CrashIs DEF TypeOK
<1>2. TrackedPidsAreLive'
  BY CrashIs, TrackedStay
<1>3. StepsSequential' /\ Allowed
  BY CrashIs, Unstarted
<1>4. QED
  BY <1>1, <1>2, <1>3

LEMMA InitAlways == Init => Always
<1> SUFFICES ASSUME Init PROVE Always
  OBVIOUS
<1>1. 1 \in Steps /\ NoRow \in Row /\ NoRow.status = "absent"
  BY PipelineAssumption DEF Steps, NoRow, Row, RunStatus, StepStatus
<1>2. TypeOK
  BY <1>1, PipelineAssumption DEF Init, TypeOK
<1>3. TrackedPidsAreLive
  BY DEF Init, TrackedPidsAreLive
<1>4. StepsSequential
  BY <1>1 DEF Init, StepsSequential, Parked
<1>5. QED
  BY <1>2, <1>3, <1>4 DEF Always

LEMMA AlwaysStep == Always /\ [Next]_vars => Always' /\ Allowed
<1> SUFFICES ASSUME Always, [Next]_vars PROVE Always' /\ Allowed
  OBVIOUS
<1>1. CASE UNCHANGED vars
  <2>1. StepsSequential' /\ Allowed
    BY <1>1, Unstarted DEF vars, Parked
  <2>2. TypeOK'
    BY <1>1 DEF vars, Always, TypeOK
  <2>3. TrackedPidsAreLive'
    BY <1>1, TrackedStay DEF vars
  <2>4. QED
    BY <2>1, <2>2, <2>3 DEF Always
<1>2. ASSUME NEW r \in Runs,
             \/ \E policy \in [Steps -> {"stop", "continue"}], auto, linked \in BOOLEAN :
                  StartPipeline(r, policy, auto, linked)
             \/ \E ok \in BOOLEAN : AdvanceRun(r, ok)
             \/ CancelRun(r)
             \/ DeletePipeline(r)
      PROVE  Always' /\ Allowed
  BY <1>2, StartAlways, AdvanceAlways, CancelAlways, DeletePipelineAlways
<1>3. ASSUME NEW i \in Steps, DeleteTemplate(i) PROVE Always' /\ Allowed
  BY <1>3, DeleteTemplateAlways
<1>4. ASSUME NEW c \in Calls, SpawnSucceeds(c) \/ SpawnThrows(c) PROVE Always' /\ Allowed
  BY <1>4, SpawnSucceedsAlways, SpawnThrowsAlways
<1>5. ASSUME NEW k \in children, NEW ok \in BOOLEAN, ChildExits(k, ok) PROVE Always' /\ Allowed
  BY <1>5, ExitAlways
<1>6. CASE Crash
  BY <1>6, CrashAlways
<1>7. QED
  BY <1>1, <1>2, <1>3, <1>4, <1>5, <1>6 DEF Next

---------------------------------------------------------------------------
(* When no event slips in *)

Orderly(row) ==
    row.status = "running" =>
        Reached(row.steps, row.policy, row.cur) /\ row.steps[row.cur] \in {"running", "failed"}

Truthful(row) ==
    LET stopped(i) == row.steps[i] = "failed" /\ row.policy[i] = "stop"
    IN  /\ row.status = "completed" => \A i \in Steps : row.steps[i] = "completed"
        /\ row.status = "completed_with_errors" =>
              /\ \A i \in Steps : row.steps[i] \in {"completed", "failed"} /\ ~stopped(i)
              /\ \E i \in Steps : row.steps[i] = "failed"
        /\ row.status = "failed" =>
              \E i \in Steps : stopped(i) /\ \A j \in Steps : j > i => row.steps[j] = "skipped"
        /\ row.status = "cancelled" => \A i \in Steps : row.steps[i] \notin {"pending", "running"}

LEMMA RowsAre ==
    /\ StepsInOrder <=> \A r \in Runs : Orderly(run[r])
    /\ OutcomeMatchesSteps <=> \A r \in Runs : Truthful(run[r])
<1>1. StepsInOrder <=> \A r \in Runs : Orderly(run[r])
  BY DEF StepsInOrder, Orderly, Reached
<1>2. OutcomeMatchesSteps <=> \A r \in Runs : Truthful(run[r])
  BY Zenon DEF OutcomeMatchesSteps, Truthful
<1>3. QED
  BY <1>1, <1>2

LEMMA RowsWillBe ==
    /\ StepsInOrder' <=> \A r \in Runs : Orderly(run'[r])
    /\ OutcomeMatchesSteps' <=> \A r \in Runs : Truthful(run'[r])
<1>1. StepsInOrder' <=> \A r \in Runs : Orderly(run'[r])
  BY DEF StepsInOrder, Orderly, Reached
<1>2. OutcomeMatchesSteps' <=> \A r \in Runs : Truthful(run'[r])
  BY Zenon DEF OutcomeMatchesSteps, Truthful
<1>3. QED
  BY <1>1, <1>2

\* Of a run in order only the current step can run.
LEMMA RunningIsCurrent ==
    ASSUME NEW row \in Row, Orderly(row), row.status = "running",
           NEW i \in Steps, row.steps[i] = "running"
    PROVE  i = row.cur
BY RowFields, PipelineAssumption DEF Orderly, Reached, Steps

LEMMA OrderAfter ==
    ASSUME NEW row \in Row, NEW i \in Steps, NEW ok \in BOOLEAN,
           row.status = "running", row.steps[i] = "running", Orderly(row)
    PROVE  LET next == AfterStep(row, i, ok)
           IN  /\ next.status \in {"running", "failed", "completed", "completed_with_errors"}
               /\ next.status = "running" =>
                    /\ next.cur = i + 1 /\ next.steps[next.cur] = "running"
                    /\ Reached(next.steps, row.policy, next.cur)
               /\ \A j \in Steps : j <= i => next.steps[j] # "running"
               /\ Orderly(next)
               /\ Truthful(next)
<1> DEFINE next == AfterStep(row, i, ok)
<1> DEFINE end == IF ok THEN "completed" ELSE "failed"
<1>0. /\ i \in Nat /\ StepCount \in Nat /\ Steps \subseteq Nat /\ i <= StepCount
      /\ \A j \in Steps : j <= StepCount
      /\ i = row.cur
      /\ next.policy = row.policy
  <2>1. i = row.cur
    BY RunningIsCurrent
  <2>2. next.policy = row.policy
    BY AfterStepIs
  <2> HIDE DEF next
  <2>3. QED
    BY <2>1, <2>2, PipelineAssumption DEF Steps
<1>1. /\ \A j \in Steps : j < i => \/ row.steps[j] = "completed"
                                   \/ row.steps[j] = "failed" /\ row.policy[j] = "continue"
      /\ \A j \in Steps : j > i => row.steps[j] = "pending"
  BY <1>0 DEF Orderly, Reached
<1>2. CASE /\ ~ok /\ row.policy[i] = "stop"
           /\ next.status = "failed" /\ next.cur = i
           /\ next.steps[i] = "failed"
           /\ \A j \in Steps : j > i => next.steps[j] = "skipped"
           /\ \A j \in Steps : j < i => next.steps[j] = row.steps[j]
  <2> HIDE DEF next
  <2>1. Orderly(next) /\ Truthful(next)
    BY <1>0, <1>2 DEF Orderly, Truthful
  <2>2. \A j \in Steps : j <= i => next.steps[j] # "running"
    BY <1>0, <1>1, <1>2
  <2>3. QED
    BY <1>2, <2>1, <2>2 DEF next
<1>3. CASE /\ ok \/ row.policy[i] = "continue"
           /\ i = StepCount
           /\ next.status = FinalStatus(next.steps) /\ next.cur = i
           /\ next.steps[i] = end
           /\ \A j \in Steps \ {i} : next.steps[j] = row.steps[j]
  <2> HIDE DEF next
  <2>1. \A j \in Steps : \/ next.steps[j] = "completed"
                         \/ next.steps[j] = "failed" /\ row.policy[j] = "continue"
    BY <1>0, <1>1, <1>3
  <2>2. next.status \in {"completed", "completed_with_errors"}
    BY <1>3 DEF FinalStatus
  <2>3. next.status = "completed" => \A j \in Steps : next.steps[j] = "completed"
    BY <1>3, <2>1 DEF FinalStatus
  <2>4. next.status = "completed_with_errors" => \E j \in Steps : next.steps[j] = "failed"
    BY <1>3 DEF FinalStatus
  <2>5. Orderly(next) /\ Truthful(next)
    BY <1>0, <2>1, <2>2, <2>3, <2>4 DEF Orderly, Truthful
  <2>6. QED
    BY <2>1, <2>2, <2>5 DEF next
<1>4. CASE /\ ok \/ row.policy[i] = "continue"
           /\ i + 1 \in Steps
           /\ next.status = row.status /\ next.cur = i + 1
           /\ next.steps[i] = end /\ next.steps[i + 1] = "running"
           /\ \A j \in Steps \ {i, i + 1} : next.steps[j] = row.steps[j]
  <2> HIDE DEF next
  <2>1. \A j \in Steps : j < i + 1 => \/ next.steps[j] = "completed"
                                      \/ next.steps[j] = "failed" /\ row.policy[j] = "continue"
    BY <1>0, <1>1, <1>4
  <2>2. \A j \in Steps : j > i + 1 => next.steps[j] = "pending"
    BY <1>0, <1>1, <1>4
  <2>3. Reached(next.steps, row.policy, i + 1)
    BY <2>1, <2>2 DEF Reached
  <2>4. \A j \in Steps : j <= i => next.steps[j] # "running"
    BY <1>0, <2>1
  <2>5. Orderly(next) /\ Truthful(next)
    BY <1>0, <1>4, <2>3 DEF Orderly, Truthful
  <2>6. QED
    BY <1>4, <2>3, <2>4, <2>5 DEF next
<1>5. QED
  BY <1>2, <1>3, <1>4, AfterStepIs

\* Nothing is parked, and no run does anything but disappear.
LEMMA QuietUndisturbed ==
    ASSUME Always, Undisturbed, Parked' = {},
           \A r \in Runs : \/ run'[r] = run[r]
                           \/ run'[r].status = "deleted",
           \A l \in children' : \E k \in children :
             /\ l.run = k.run /\ l.step = k.step
             /\ l.watched /\ l.hasPid =>
                  /\ l = k
                  /\ tracked'[<<k.run, k.step>>] = tracked[<<k.run, k.step>>],
           \A l, m \in children' : l.run = m.run /\ l.step = m.step => l = m
    PROVE  Undisturbed'
<1> USE DEF Undisturbed
<1>0. \A k \in children : k.run \in Runs /\ k.step \in Steps
  BY Types, ChildFields DEF Always
<1>1. OneParked' /\ ParkedIsAhead'
  BY DEF OneParked, ParkedIsAhead
<1>2. ChildrenBehind'
  <2> SUFFICES ASSUME NEW l \in children'
               PROVE  /\ run'[l.run].status # "absent"
                      /\ run'[l.run].status = "running" => l.step <= run'[l.run].cur
    BY DEF ChildrenBehind
  <2>1. PICK k \in children : l.run = k.run /\ l.step = k.step
    OBVIOUS
  <2>2. QED
    BY <1>0, <2>1 DEF ChildrenBehind
<1>3. RunningIsTracked'
  <2> SUFFICES ASSUME NEW l \in children', l.watched, l.hasPid,
                      run'[l.run].status = "running", run'[l.run].steps[l.step] = "running"
               PROVE  tracked'[<<l.run, l.step>>] = l.id
    BY DEF RunningIsTracked
  <2>1. l \in children /\ tracked'[<<l.run, l.step>>] = tracked[<<l.run, l.step>>]
    OBVIOUS
  <2>2. run'[l.run] = run[l.run]
    BY <1>0, <2>1
  <2>3. QED
    BY <2>1, <2>2 DEF RunningIsTracked
<1>4. StepsInOrder' /\ OutcomeMatchesSteps'
  <2>1. \A r \in Runs : Orderly(run'[r])
    BY RowsAre DEF Orderly
  <2>2. \A r \in Runs : run'[r].status = "deleted" => Truthful(run'[r])
    BY DEF Truthful
  <2>3. \A r \in Runs : Truthful(run'[r])
    BY <2>2, RowsAre
  <2>4. QED
    BY <2>1, <2>3, RowsWillBe
<1>5. CancelReachesProcesses'
  <2> SUFFICES ASSUME NEW l \in children', l.watched, l.hasPid,
                      run'[l.run].status = "cancelled", run'[l.run].steps[l.step] = "skipped"
               PROVE  l.killed
    BY DEF CancelReachesProcesses
  <2>1. l \in children
    OBVIOUS
  <2>2. run'[l.run] = run[l.run]
    BY <1>0, <2>1
  <2>3. QED
    BY <2>1, <2>2 DEF CancelReachesProcesses
<1>6. QED
  BY <1>1, <1>2, <1>3, <1>4, <1>5

LEMMA EndsUndisturbed ==
    ASSUME Always, Undisturbed, Parked = {},
           NEW r \in Runs, NEW i \in Steps, NEW ok \in BOOLEAN,
           run[r].status = "running", run[r].steps[i] = "running", Ends(r, i, ok),
           children' \subseteq children,
           \A l \in children' : tracked'[<<l.run, l.step>>] = tracked[<<l.run, l.step>>]
    PROVE  Undisturbed'
<1> USE DEF Undisturbed
<1> DEFINE next == AfterStep(run[r], i, ok)
<1>0. /\ \A k \in children : k.run \in Runs /\ k.step \in Steps
      /\ Steps \subseteq Nat
  BY Types, ChildFields, PipelineAssumption DEF Always, Steps
<1>1. run[r] \in Row /\ Orderly(run[r]) /\ i = run[r].cur
  BY Types, RowsAre, RunningIsCurrent DEF Always
<1>2. /\ next \in Row /\ next.policy = run[r].policy
      /\ next.status \in {"running", "failed", "completed", "completed_with_errors"}
      /\ next.status = "running" =>
           /\ next.cur = i + 1 /\ next.steps[next.cur] = "running"
           /\ Reached(next.steps, run[r].policy, next.cur)
      /\ \A j \in Steps : j <= i => next.steps[j] # "running"
      /\ Orderly(next) /\ Truthful(next)
  BY <1>1, AfterStepIs, OrderAfter
<1>3. \/ /\ run' = [run EXCEPT ![r] = next]
         /\ \/ UNCHANGED calls
            \/ next.status = "running" /\ Park(r, next.cur, next.steps, FALSE)
      \/ /\ next.status = "running"
         /\ UNCHANGED run
         /\ Park(r, next.cur, next.steps, TRUE)
  BY DEF Ends
<1> HIDE DEF next
<1>4. next.cur \in Steps /\ next.steps \in [Steps -> StepStatus]
  BY <1>2, RowFields
<1>5. /\ \A s \in Runs \ {r} : run'[s] = run[s]
      /\ run'[r] = next \/ (run'[r] = run[r] /\ next.status = "running")
  BY <1>3 DEF Always, TypeOK
<1>6. \A k \in children : run[k.run].status # "absent" /\ (k.run = r => k.step <= i)
  BY <1>1 DEF ChildrenBehind
\* Who is parked
<1>7. OneParked' /\ ParkedIsAhead'
  <2>1. CASE UNCHANGED calls
    <3>1. Parked' = {}
      BY <2>1 DEF Parked
    <3>2. QED
      BY <3>1 DEF OneParked, ParkedIsAhead
  <2>2. CASE \E w \in BOOLEAN : /\ next.status = "running"
                                /\ Park(r, next.cur, next.steps, w)
                                /\ ~w => run'[r] = next
    <3>1. PICK w \in BOOLEAN : /\ next.status = "running"
                               /\ Park(r, next.cur, next.steps, w)
                               /\ ~w => run'[r] = next
      BY <2>2
    <3>2. PICK c \in Calls \ Parked :
            /\ calls'[c].run = r /\ calls'[c].step = next.cur
            /\ calls'[c].steps = next.steps /\ calls'[c].writesBack = w
            /\ Parked' = {c}
      BY <1>4, <3>1, ParkIs DEF Always
    <3>3. run'[r].status = "running" /\ run'[r].cur <= next.cur /\ run'[r].policy = run[r].policy
          /\ (~w => run'[r].cur = next.cur)
      BY <1>0, <1>1, <1>2, <1>4, <1>5, <3>1
    <3>4. \A k \in children' : k.run = r => k.step < next.cur
      BY <1>0, <1>2, <1>6, <3>1
    <3>5. ParkedIsAhead'
      BY <1>2, <3>1, <3>2, <3>3, <3>4 DEF ParkedIsAhead
    <3>6. QED
      BY <3>2, <3>5 DEF OneParked
  <2>3. run' = [run EXCEPT ![r] = next] => run'[r] = next
    BY DEF Always, TypeOK
  <2>4. QED
    BY <1>3, <2>1, <2>2, <2>3
<1>8. ChildrenBehind'
  <2> SUFFICES ASSUME NEW k \in children'
               PROVE  /\ run'[k.run].status # "absent"
                      /\ run'[k.run].status = "running" => k.step <= run'[k.run].cur
    BY DEF ChildrenBehind
  <2>1. CASE k.run = r
    <3>1. k.step \in Nat /\ i \in Nat /\ k.step <= i
      BY <1>0, <1>6, <2>1
    <3>2. CASE run'[r] = next
      BY <1>2, <2>1, <3>1, <3>2
    <3>3. CASE run'[r] = run[r]
      BY <1>1, <2>1, <3>1, <3>3
    <3>4. QED
      BY <1>5, <3>2, <3>3
  <2>2. CASE k.run # r
    BY <1>0, <1>5, <2>2 DEF ChildrenBehind
  <2>3. QED
    BY <2>1, <2>2
<1>9. RunningIsTracked'
  <2> SUFFICES ASSUME NEW k \in children', k.watched, k.hasPid,
                      run'[k.run].status = "running", run'[k.run].steps[k.step] = "running"
               PROVE  tracked'[<<k.run, k.step>>] = k.id
    BY DEF RunningIsTracked
  <2>1. run'[k.run] = run[k.run]
    BY <1>0, <1>2, <1>5, <1>6
  <2>2. QED
    BY <2>1 DEF RunningIsTracked
<1>10. StepsInOrder' /\ OutcomeMatchesSteps'
  <2>1. \A s \in Runs : Orderly(run'[s]) /\ Truthful(run'[s])
    BY <1>2, <1>5, RowsAre
  <2>2. QED
    BY <2>1, RowsWillBe
<1>11. CancelReachesProcesses'
  <2> SUFFICES ASSUME NEW k \in children', k.watched, k.hasPid,
                      run'[k.run].status = "cancelled", run'[k.run].steps[k.step] = "skipped"
               PROVE  k.killed
    BY DEF CancelReachesProcesses
  <2>1. run'[k.run] = run[k.run]
    BY <1>0, <1>2, <1>5
  <2>2. QED
    BY <2>1 DEF CancelReachesProcesses
<1>12. QED
  BY <1>7, <1>8, <1>9, <1>10, <1>11

LEMMA AdvanceUndisturbed ==
    ASSUME Always, Undisturbed, ~ImportYields, NEW r \in Runs, NEW ok \in BOOLEAN, AdvanceRun(r, ok)
    PROVE  Undisturbed'
<1>1. /\ Parked = {}
      /\ run[r].status = "running" /\ run[r].steps[run[r].cur] = "running"
      /\ run[r].cur \in Steps
      /\ UNCHANGED <<children, tracked>>
  BY Types, RowFields DEF AdvanceRun, NextEvent, Always
<1>2. QED
  BY <1>1, AdvanceEnds, EndsUndisturbed

LEMMA ExitUndisturbed ==
    ASSUME Always, Undisturbed, ~ImportYields,
           NEW k \in children, NEW ok \in BOOLEAN, ChildExits(k, ok)
    PROVE  Undisturbed'
<1>1. /\ Parked = {}
      /\ k.run \in Runs /\ k.step \in Steps
      /\ children' = children \ {k}
      /\ \A r \in Runs, i \in Steps :
           ~(r = k.run /\ i = k.step /\ k.watched) => tracked'[<<r, i>>] = tracked[<<r, i>>]
  BY ExitIs DEF ChildExits, NextEvent, Always
<1>2. \A l \in children' : tracked'[<<l.run, l.step>>] = tracked[<<l.run, l.step>>]
  <2> SUFFICES ASSUME NEW l \in children'
               PROVE  tracked'[<<l.run, l.step>>] = tracked[<<l.run, l.step>>]
    OBVIOUS
  <2>1. l \in children /\ l # k /\ l.run \in Runs /\ l.step \in Steps
    BY <1>1, Types, ChildFields DEF Always
  <2>2. ~(l.run = k.run /\ l.step = k.step)
    BY <2>1 DEF Undisturbed, ChildrenBehind
  <2>3. QED
    BY <1>1, <2>1, <2>2
<1>3. CASE UNCHANGED <<run, task, calls>>
  <2>1. Parked' = {}
    BY <1>1, <1>3 DEF Parked
  <2>2. \A l, m \in children' : l.run = m.run /\ l.step = m.step => l = m
    BY <1>1 DEF Undisturbed, ChildrenBehind
  <2>3. QED
    BY <1>1, <1>2, <1>3, <2>1, <2>2, QuietUndisturbed
<1>4. CASE /\ run[k.run].status = "running" /\ run[k.run].steps[k.step] = "running"
           /\ Ends(k.run, k.step, ok)
  BY <1>1, <1>2, <1>4, EndsUndisturbed
<1>5. QED
  BY <1>3, <1>4, ExitIs DEF Always

LEMMA DeleteUndisturbed ==
    ASSUME Always, Undisturbed, ~ImportYields,
           \/ \E i \in Steps : DeleteTemplate(i)
           \/ \E r \in Runs : DeletePipeline(r)
    PROVE  Undisturbed'
<1>1. /\ Parked' = {}
      /\ UNCHANGED <<children, tracked>>
  BY DEF DeleteTemplate, DeletePipeline, NextEvent, Parked
<1>2. \A r \in Runs : run'[r] = run[r] \/ run'[r].status = "deleted"
  <2>1. CASE UNCHANGED run
    BY <2>1
  <2>2. CASE \E r \in Runs : run' = [run EXCEPT ![r].status = "deleted"]
    <3>1. PICK r \in Runs : run' = [run EXCEPT ![r].status = "deleted"]
      BY <2>2
    <3>2. run'[r].status = "deleted" /\ \A s \in Runs \ {r} : run'[s] = run[s]
      BY <3>1 DEF Always, TypeOK, Row
    <3>3. QED
      BY <3>2
  <2>3. QED
    BY <2>1, <2>2 DEF DeleteTemplate, DeletePipeline
<1>3. \A l, m \in children' : l.run = m.run /\ l.step = m.step => l = m
  BY <1>1 DEF Undisturbed, ChildrenBehind
<1>4. QED
  BY <1>1, <1>2, <1>3, QuietUndisturbed

LEMMA CrashUndisturbed ==
    ASSUME Always, Undisturbed, Crash
    PROVE  Undisturbed'
<1>1. /\ Parked' = {} /\ UNCHANGED run
      /\ \A l \in children' :
           /\ ~l.watched
           /\ \E k \in children : l = [k EXCEPT !.watched = FALSE] /\ l.run = k.run /\ l.step = k.step
  BY CrashIs DEF Always
<1>2. \A l, m \in children' : l.run = m.run /\ l.step = m.step => l = m
  <2> SUFFICES ASSUME NEW l \in children', NEW m \in children', l.run = m.run, l.step = m.step
               PROVE  l = m
    OBVIOUS
  <2>1. PICK k \in children : l = [k EXCEPT !.watched = FALSE] /\ l.run = k.run /\ l.step = k.step
    BY <1>1
  <2>2. PICK j \in children : m = [j EXCEPT !.watched = FALSE] /\ m.run = j.run /\ m.step = j.step
    BY <1>1
  <2>3. k = j
    BY <2>1, <2>2 DEF Undisturbed, ChildrenBehind
  <2>4. QED
    BY <2>1, <2>2, <2>3
<1>3. QED
  BY <1>1, <1>2, QuietUndisturbed

LEMMA StartUndisturbed ==
    ASSUME Always, Undisturbed, ~ImportYields,
           NEW r \in Runs, NEW policy \in [Steps -> {"stop", "continue"}],
           NEW auto \in BOOLEAN, NEW linked \in BOOLEAN, StartPipeline(r, policy, auto, linked)
    PROVE  Undisturbed'
<1> USE DEF Undisturbed
<1> DEFINE first == [i \in Steps |-> IF i = 1 THEN "running" ELSE "pending"]
<1> DEFINE row == [status |-> "running", cur |-> 1, steps |-> first,
                   policy |-> policy, auto |-> auto, linked |-> linked]
<1>0. /\ \A k \in children : k.run \in Runs /\ k.step \in Steps
      /\ Steps \subseteq Nat /\ 1 \in Steps /\ \A i \in Steps : ~(i < 1)
  BY Types, ChildFields, PipelineAssumption DEF Always, Steps
<1>1. /\ run[r].status = "absent" /\ run' = [run EXCEPT ![r] = row] /\ Parked = {}
      /\ Park(r, 1, row.steps, FALSE) \/ UNCHANGED calls
      /\ UNCHANGED <<children, tracked>>
  BY DEF StartPipeline, NextEvent
<1>2. first \in [Steps -> StepStatus] /\ first[1] = "running" /\ Reached(first, policy, 1)
  BY <1>0 DEF StepStatus, Reached
<1>3. row.status = "running" /\ row.steps = first /\ row.policy = policy /\ row.cur = 1
  OBVIOUS
<1> HIDE DEF first, row
<1>4. run'[r] = row /\ \A s \in Runs \ {r} : run'[s] = run[s]
  BY <1>1 DEF Always, TypeOK
<1>5. \A k \in children : k.run # r /\ run'[k.run] = run[k.run]
  BY <1>0, <1>1, <1>4 DEF ChildrenBehind
<1>6. OneParked' /\ ParkedIsAhead'
  <2>1. CASE UNCHANGED calls
    <3>1. Parked' = {}
      BY <1>1, <2>1 DEF Parked
    <3>2. QED
      BY <3>1 DEF OneParked, ParkedIsAhead
  <2>2. CASE \E w \in BOOLEAN : Park(r, 1, row.steps, w)
    <3>1. PICK w \in BOOLEAN : Park(r, 1, row.steps, w)
      BY <2>2
    <3>2. PICK c \in Calls \ Parked :
            /\ calls'[c].run = r /\ calls'[c].step = 1
            /\ calls'[c].steps = first /\ Parked' = {c}
      BY <1>0, <1>1, <1>2, <1>3, <3>1, ParkIs DEF Always
    <3>3. \A k \in children' : k.run # r
      BY <1>1, <1>5
    <3>4. ParkedIsAhead'
      BY <1>2, <1>3, <1>4, <3>2, <3>3 DEF ParkedIsAhead
    <3>5. QED
      BY <3>2, <3>4 DEF OneParked
  <2>3. QED
    BY <1>1, <2>1, <2>2
<1>7. ChildrenBehind' /\ RunningIsTracked' /\ CancelReachesProcesses'
  BY <1>1, <1>5 DEF ChildrenBehind, RunningIsTracked, CancelReachesProcesses
<1>8. StepsInOrder' /\ OutcomeMatchesSteps'
  <2>1. Orderly(row) /\ Truthful(row)
    BY <1>2, <1>3 DEF Orderly, Truthful
  <2>2. \A s \in Runs : Orderly(run'[s]) /\ Truthful(run'[s])
    BY <1>4, <2>1, RowsAre
  <2>3. QED
    BY <2>2, RowsWillBe
<1>9. QED
  BY <1>6, <1>7, <1>8

LEMMA CancelUndisturbed ==
    ASSUME Always, Undisturbed, ~ImportYields, NEW r \in Runs, CancelRun(r)
    PROVE  Undisturbed'
<1> USE DEF Undisturbed
<1>0. /\ \A k \in children : k.run \in Runs /\ k.step \in Steps
      /\ Steps \subseteq Nat /\ run[r].cur \in Steps
  BY Types, RowFields, ChildFields, PipelineAssumption DEF Always, Steps
<1>1. /\ run[r].status = "running" /\ run'[r].status = "cancelled"
      /\ \A i \in Steps : run'[r].steps[i] = IF run[r].steps[i] \in {"running", "pending"}
                                            THEN "skipped" ELSE run[r].steps[i]
      /\ \A s \in Runs \ {r} : run'[s] = run[s]
      /\ children' = {Signalled(r, k) : k \in children}
      /\ \A s \in Runs, i \in Steps : s # r => tracked'[<<s, i>>] = tracked[<<s, i>>]
  BY CancelIs DEF Always
<1>2. \A k \in children :
        /\ Signalled(r, k).id = k.id /\ Signalled(r, k).run = k.run
        /\ Signalled(r, k).step = k.step /\ Signalled(r, k).hasPid = k.hasPid
        /\ Signalled(r, k).watched = k.watched
        /\ k.killed => Signalled(r, k).killed
        /\ k.id \in Hit(r) => Signalled(r, k).killed
  BY CancelIs DEF Always
<1>3. OneParked' /\ ParkedIsAhead'
  <2>1. Parked' = {}
    BY CancelIs DEF CancelRun, NextEvent, Parked, Always
  <2>2. QED
    BY <2>1 DEF OneParked, ParkedIsAhead
<1>4. ChildrenBehind'
  <2>1. \A k \in children : /\ run'[k.run].status # "absent"
                            /\ run'[k.run].status = "running" => k.step <= run'[k.run].cur
    BY <1>0, <1>1 DEF ChildrenBehind
  <2>2. \A k, l \in children : k.run = l.run /\ k.step = l.step => k = l
    BY DEF ChildrenBehind
  <2>3. \A l \in children' : \E k \in children : l = Signalled(r, k) /\ l.run = k.run /\ l.step = k.step
    BY <1>1, <1>2
  <2>4. ASSUME NEW l \in children', NEW m \in children', l.run = m.run, l.step = m.step
        PROVE  l = m
    BY <2>2, <2>3, <2>4
  <2>5. QED
    BY <2>1, <2>3, <2>4 DEF ChildrenBehind
<1>5. RunningIsTracked'
  <2> SUFFICES ASSUME NEW l \in children', l.watched, l.hasPid,
                      run'[l.run].status = "running", run'[l.run].steps[l.step] = "running"
               PROVE  tracked'[<<l.run, l.step>>] = l.id
    BY DEF RunningIsTracked
  <2>1. PICK k \in children : l = Signalled(r, k)
    BY <1>1
  <2>2. k.run # r /\ k.watched /\ k.hasPid /\ run'[k.run] = run[k.run]
        /\ l.run = k.run /\ l.step = k.step /\ l.id = k.id
    BY <1>0, <1>1, <1>2, <2>1
  <2>3. tracked[<<k.run, k.step>>] = k.id
    BY <2>2 DEF RunningIsTracked
  <2>4. k.run \in Runs /\ k.step \in Steps
    BY <1>0
  <2>5. tracked'[<<k.run, k.step>>] = tracked[<<k.run, k.step>>]
    BY <1>1, <2>2, <2>4
  <2>6. QED
    BY <2>2, <2>3, <2>5
<1>6. StepsInOrder' /\ OutcomeMatchesSteps'
  <2>1. Orderly(run'[r]) /\ Truthful(run'[r])
    BY <1>1 DEF Orderly, Truthful
  <2>2. \A s \in Runs : Orderly(run'[s]) /\ Truthful(run'[s])
    BY <1>1, <2>1, RowsAre
  <2>3. QED
    BY <2>2, RowsWillBe
<1>7. CancelReachesProcesses'
  <2> SUFFICES ASSUME NEW l \in children', l.watched, l.hasPid,
                      run'[l.run].status = "cancelled", run'[l.run].steps[l.step] = "skipped"
               PROVE  l.killed
    BY DEF CancelReachesProcesses
  <2>1. PICK k \in children : l = Signalled(r, k)
    BY <1>1
  <2>2. /\ k.watched /\ k.hasPid /\ l.run = k.run /\ l.step = k.step
        /\ k.killed => l.killed
        /\ k.id \in Hit(r) => l.killed
    BY <1>2, <2>1
  <2>3. CASE k.run # r
    <3>1. run'[k.run] = run[k.run]
      BY <1>0, <1>1, <2>3
    <3>2. k.killed
      BY <2>2, <3>1 DEF CancelReachesProcesses
    <3>3. QED
      BY <2>2, <3>2
  <2>4. CASE k.run = r
    <3>1. k.step <= run[r].cur
      BY <1>1, <2>4 DEF ChildrenBehind
    <3>2. run[r].steps[k.step] \in {"completed", "failed", "running"}
      <4>1. Orderly(run[r])
        BY RowsAre
      <4>2. CASE k.step = run[r].cur
        BY <1>1, <4>1, <4>2 DEF Orderly
      <4>3. CASE k.step < run[r].cur
        BY <1>0, <1>1, <4>1, <4>3 DEF Orderly, Reached
      <4>4. k.step \in Nat /\ run[r].cur \in Nat
        BY <1>0
      <4>5. k.step = run[r].cur \/ k.step < run[r].cur
        BY <3>1, <4>4
      <4>6. QED
        BY <4>2, <4>3, <4>5
    <3>3. run[r].steps[k.step] = "running"
      <4>1. run'[r].steps[k.step] = "skipped" /\ k.step \in Steps
        BY <1>0, <2>2, <2>4
      <4>2. run[r].steps[k.step] \notin {"running", "pending"} => run[r].steps[k.step] = "skipped"
        BY <1>1, <4>1
      <4>3. QED
        BY <3>2, <4>2
    <3>4. tracked[<<r, k.step>>] = k.id /\ k.step \in Live(r)
      BY <1>0, <1>1, <2>2, <2>4, <3>3 DEF RunningIsTracked, Live
    <3>5. k.id \in Hit(r)
      BY <3>4 DEF Hit
    <3>6. QED
      BY <2>2, <3>5
  <2>5. QED
    BY <2>3, <2>4
<1>8. QED
  BY <1>3, <1>4, <1>5, <1>6, <1>7

\* The parked handler stores what it holds; no other handler is parked.
LEMMA StoredUndisturbed ==
    ASSUME Always, Undisturbed, NEW c \in Parked, Unpark(c),
           NEW steps \in [Steps -> StepStatus], NEW status \in {"running", "failed"},
           Store(calls[c], steps, status),
           status = "running" =>
             /\ Reached(steps, run[calls[c].run].policy, calls[c].step)
             /\ steps[calls[c].step] \in {"running", "failed"},
           status = "failed" =>
             /\ run[calls[c].run].policy[calls[c].step] = "stop" /\ steps[calls[c].step] = "failed"
             /\ \A j \in Steps : j > calls[c].step => steps[j] = "skipped",
           \A k, l \in children' \ children : k = l,
           \A k \in children' \ children :
             /\ k.run = calls[c].run /\ k.step = calls[c].step
             /\ k.hasPid => tracked'[<<k.run, k.step>>] = k.id,
           \A k \in children :
             ~(k.run = calls[c].run /\ k.step = calls[c].step) =>
               tracked'[<<k.run, k.step>>] = tracked[<<k.run, k.step>>]
    PROVE  Undisturbed'
<1> USE DEF Undisturbed
<1> DEFINE call == calls[c]
<1> DEFINE r == call.run
<1>0. /\ \A k \in children : k.run \in Runs /\ k.step \in Steps
      /\ Steps \subseteq Nat
      /\ call \in Call /\ r \in Runs /\ call.step \in Steps
  BY Types, ChildFields, CallFields, PipelineAssumption DEF Always, Steps
<1>1. /\ run[r].status = "running"
      /\ ~call.writesBack => run[r].cur = call.step
      /\ \A k \in children : k.run = r => k.step < call.step
  BY DEF ParkedIsAhead
<1>2. status \in RunStatus
  BY DEF RunStatus, Terminal
<1>3. /\ \A s \in Runs \ {r} : run'[s] = run[s]
      /\ run'[r].status = status /\ run'[r].steps = steps
      /\ run'[r].cur = call.step /\ run'[r].policy = run[r].policy
  BY <1>0, <1>1, <1>2, StoreIs DEF Always
<1>4. OneParked' /\ ParkedIsAhead'
  <2>1. Parked' = {}
    BY UnparkIs DEF Always, OneParked
  <2>2. QED
    BY <2>1 DEF OneParked, ParkedIsAhead
<1>5. \A k \in children : \A l \in children' \ children : ~(k.run = l.run /\ k.step = l.step)
  <2>0. call.step \in Nat
    BY <1>0
  <2>1. \A k \in children : ~(k.run = r /\ k.step = call.step)
    BY <1>1, <2>0
  <2>2. QED
    BY <2>1
<1>6. ChildrenBehind'
  <2>1. ASSUME NEW k \in children'
        PROVE  /\ run'[k.run].status # "absent"
               /\ run'[k.run].status = "running" => k.step <= run'[k.run].cur
    <3>1. CASE k.run = r
      <4>1. k.step <= call.step
        <5>1. CASE k \in children
          BY <1>0, <1>1, <3>1, <5>1
        <5>2. CASE k \notin children
          <6>1. k.step = call.step
            BY <2>1, <5>2
          <6>2. call.step \in Nat
            BY <1>0
          <6>3. QED
            BY <6>1, <6>2
        <5>3. QED
          BY <5>1, <5>2
      <4>2. QED
        BY <1>3, <3>1, <4>1
    <3>2. CASE k.run # r
      <4>1. k \in children
        BY <2>1, <3>2
      <4>2. run'[k.run] = run[k.run]
        BY <1>0, <1>3, <3>2, <4>1
      <4>3. QED
        BY <4>1, <4>2 DEF ChildrenBehind
    <3>3. QED
      BY <3>1, <3>2
  <2>2. \A k, l \in children' : k.run = l.run /\ k.step = l.step => k = l
    BY <1>5 DEF ChildrenBehind
  <2>3. QED
    BY <2>1, <2>2 DEF ChildrenBehind
<1>7. RunningIsTracked'
  <2> SUFFICES ASSUME NEW k \in children', k.watched, k.hasPid,
                      run'[k.run].status = "running", run'[k.run].steps[k.step] = "running"
               PROVE  tracked'[<<k.run, k.step>>] = k.id
    BY DEF RunningIsTracked
  <2>1. CASE k \notin children
    BY <2>1
  <2>2. CASE k \in children /\ k.run = r
    <3>1. k.step < call.step /\ k.step \in Steps
      BY <1>0, <1>1, <2>2
    <3>2. steps[k.step] = "running" /\ status = "running"
      BY <1>3, <2>2
    <3>3. QED
      BY <3>1, <3>2 DEF Reached
  <2>3. CASE k \in children /\ k.run # r
    <3>1. run'[k.run] = run[k.run]
      BY <1>0, <1>3, <2>3
    <3>2. tracked'[<<k.run, k.step>>] = tracked[<<k.run, k.step>>]
      BY <2>3
    <3>3. tracked[<<k.run, k.step>>] = k.id
      BY <2>3, <3>1 DEF RunningIsTracked
    <3>4. QED
      BY <3>2, <3>3
  <2>4. QED
    BY <2>1, <2>2, <2>3
<1>8. StepsInOrder' /\ OutcomeMatchesSteps'
  <2>1. Orderly(run'[r])
    BY <1>3 DEF Orderly
  <2>2. Truthful(run'[r])
    BY <1>0, <1>3 DEF Truthful
  <2>3. \A s \in Runs : Orderly(run'[s]) /\ Truthful(run'[s])
    BY <1>3, <2>1, <2>2, RowsAre
  <2>4. QED
    BY <2>3, RowsWillBe
<1>9. CancelReachesProcesses'
  <2> SUFFICES ASSUME NEW k \in children', k.watched, k.hasPid,
                      run'[k.run].status = "cancelled", run'[k.run].steps[k.step] = "skipped"
               PROVE  k.killed
    BY DEF CancelReachesProcesses
  <2>1. k.run # r
    BY <1>3
  <2>2. k \in children /\ run'[k.run] = run[k.run]
    BY <1>0, <1>3, <2>1
  <2>3. QED
    BY <2>2 DEF CancelReachesProcesses
<1>10. QED
  BY <1>4, <1>6, <1>7, <1>8, <1>9

LEMMA ParkedIs ==
    ASSUME Always, Undisturbed, NEW c \in Parked
    PROVE  LET call == calls[c]
           IN  /\ call.step \in Steps /\ call.steps \in [Steps -> StepStatus]
               /\ run[call.run].status = "running"
               /\ call.steps[call.step] = "running"
               /\ Reached(call.steps, run[call.run].policy, call.step)
BY Types, CallFields DEF Always, Undisturbed, ParkedIsAhead

LEMMA SpawnSucceedsUndisturbed ==
    ASSUME Always, Undisturbed, NEW c \in Calls, SpawnSucceeds(c)
    PROVE  Undisturbed'
<1>1. c \in Parked
  BY DEF SpawnSucceeds
<1>2. /\ Unpark(c)
      /\ Store(calls[c], calls[c].steps, "running")
  BY <1>1, SpawnIs, ParkedIs DEF Always
<1>3. PICK k \in Child :
        /\ children' = children \cup {k}
        /\ k.run = calls[c].run /\ k.step = calls[c].step
        /\ k.hasPid => tracked'[<<k.run, k.step>>] = k.id
        /\ \A r \in Runs, i \in Steps :
             ~(r = k.run /\ i = k.step) \/ ~k.hasPid => tracked'[<<r, i>>] = tracked[<<r, i>>]
  BY <1>1, SpawnIs DEF Always
<1>4. \A l \in children :
        ~(l.run = calls[c].run /\ l.step = calls[c].step) =>
          tracked'[<<l.run, l.step>>] = tracked[<<l.run, l.step>>]
  BY <1>3, Types, ChildFields DEF Always
<1>5. \A l \in children' \ children : l = k
  BY <1>3
<1>6. /\ \A j, l \in children' \ children : j = l
      /\ \A l \in children' \ children :
           /\ l.run = calls[c].run /\ l.step = calls[c].step
           /\ l.hasPid => tracked'[<<l.run, l.step>>] = l.id
  BY <1>3, <1>5
<1>7. QED
  BY <1>1, <1>2, <1>4, <1>6, ParkedIs, StoredUndisturbed

LEMMA SpawnThrowsUndisturbed ==
    ASSUME Always, Undisturbed, NEW c \in Calls, SpawnThrows(c)
    PROVE  Undisturbed'
<1> DEFINE call == calls[c]
<1> DEFINE i == call.step
<1> DEFINE policy == run[call.run].policy
<1> DEFINE failed == [call.steps EXCEPT ![i] = "failed"]
<1>1. c \in Parked
  BY DEF SpawnThrows
<1>2. /\ i \in Steps /\ call.steps \in [Steps -> StepStatus] /\ Steps \subseteq Nat
      /\ run[call.run].status = "running"
      /\ Reached(call.steps, policy, i)
  BY <1>1, ParkedIs, PipelineAssumption DEF Steps
<1>3. /\ failed \in [Steps -> StepStatus]
      /\ SkipAfter(failed, i) \in [Steps -> StepStatus]
      /\ Unpark(c)
      /\ \/ policy[i] = "stop" /\ Store(call, SkipAfter(failed, i), "failed")
         \/ Store(call, failed, "running")
      /\ UNCHANGED <<children, tracked>>
  BY <1>1, <1>2, ThrowIs DEF Always
<1>4. failed[i] = "failed" /\ \A j \in Steps \ {i} : failed[j] = call.steps[j]
  BY <1>2
<1> HIDE DEF failed
<1>5. Reached(failed, policy, i)
  BY <1>2, <1>4 DEF Reached
<1>6. SkipAfter(failed, i)[i] = "failed" /\ \A j \in Steps : j > i => SkipAfter(failed, i)[j] = "skipped"
  <2> HIDE DEF i
  <2>1. \A j \in Steps : SkipAfter(failed, i)[j] = IF j > i THEN "skipped" ELSE failed[j]
    BY DEF SkipAfter
  <2>2. i \in Steps /\ i \in Nat /\ ~(i > i)
    BY <1>2
  <2>3. QED
    BY <1>4, <2>1, <2>2
<1>7. CASE policy[i] = "stop" /\ Store(call, SkipAfter(failed, i), "failed")
  BY <1>1, <1>3, <1>6, <1>7, StoredUndisturbed
<1>8. CASE Store(call, failed, "running")
  BY <1>1, <1>3, <1>4, <1>5, <1>8, StoredUndisturbed
<1>9. QED
  BY <1>3, <1>7, <1>8

LEMMA InitUndisturbed == Init => Undisturbed
<1> SUFFICES ASSUME Init PROVE Undisturbed
  OBVIOUS
<1>1. /\ Parked = {} /\ children = {}
      /\ \A r \in Runs : run[r].status = "absent"
  BY DEF Init, Parked, NoRow
<1>2. QED
  BY <1>1 DEF Undisturbed, OneParked, ParkedIsAhead, ChildrenBehind, RunningIsTracked,
              StepsInOrder, OutcomeMatchesSteps, CancelReachesProcesses

LEMMA UndisturbedStep ==
    ASSUME Always, Undisturbed, ~ImportYields, [Next]_vars
    PROVE  Undisturbed'
<1>1. CASE UNCHANGED vars
  BY <1>1 DEF vars, Undisturbed, OneParked, ParkedIsAhead, ChildrenBehind, RunningIsTracked,
              StepsInOrder, OutcomeMatchesSteps, CancelReachesProcesses, Parked
<1>2. ASSUME NEW r \in Runs,
             \/ \E policy \in [Steps -> {"stop", "continue"}], auto, linked \in BOOLEAN :
                  StartPipeline(r, policy, auto, linked)
             \/ \E ok \in BOOLEAN : AdvanceRun(r, ok)
             \/ CancelRun(r)
             \/ DeletePipeline(r)
      PROVE  Undisturbed'
  BY <1>2, StartUndisturbed, AdvanceUndisturbed, CancelUndisturbed, DeleteUndisturbed
<1>3. ASSUME NEW i \in Steps, DeleteTemplate(i) PROVE Undisturbed'
  BY <1>3, DeleteUndisturbed
<1>4. ASSUME NEW c \in Calls, SpawnSucceeds(c) \/ SpawnThrows(c) PROVE Undisturbed'
  BY <1>4, SpawnSucceedsUndisturbed, SpawnThrowsUndisturbed
<1>5. ASSUME NEW k \in children, NEW ok \in BOOLEAN, ChildExits(k, ok) PROVE Undisturbed'
  BY <1>5, ExitUndisturbed
<1>6. CASE Crash
  BY <1>6, CrashUndisturbed
<1>7. QED
  BY <1>1, <1>2, <1>3, <1>4, <1>5, <1>6 DEF Next

LEMMA Initially == Init => IInv
BY InitAlways, InitUndisturbed DEF IInv, Always

LEMMA StepSafe == IInv /\ [Next]_vars => IInv' /\ Allowed
<1> SUFFICES ASSUME IInv, [Next]_vars PROVE IInv' /\ Allowed
  OBVIOUS
<1>1. Always' /\ Allowed
  BY AlwaysStep DEF IInv, Always
<1>2. ~ImportYields => Undisturbed'
  BY UndisturbedStep DEF IInv, Always
<1>3. QED
  BY <1>1, <1>2 DEF IInv, Always

---------------------------------------------------------------------------
(* The theorems *)

\* What the route keeps of rows, processes and parked handlers in every
\* interleaving of requests, exits, deletions and restarts.
THEOREM PipelineInvariant == Spec => []IInv
BY Initially, StepSafe, PTL DEF Spec

\* Rows, processes and parked handlers keep their types: no handler leaves
\* current_step outside the pipeline.
THEOREM PipelineTypeCorrect == Spec => []TypeOK
<1>1. IInv => TypeOK
  BY DEF IInv
<1>2. QED
  BY <1>1, PipelineInvariant, PTL

\* cancelRun signals only children that this server process spawned and that
\* have not ended (runningProcesses), whenever the import resolves.
THEOREM OnlyOwnProcesses == Spec => []TrackedPidsAreLive
<1>1. IInv => TrackedPidsAreLive
  BY DEF IInv
<1>2. QED
  BY <1>1, PipelineInvariant, PTL

\* The UPDATEs of spawnStep and advanceRun, which do not look at the row, never
\* set a finished run running again.
THEOREM FinishedStaysFinished == Spec => NeverRestarted
<1>1. IInv /\ [Next]_vars =>
        [\A r \in Runs : run[r].status \in Terminal => run'[r].status # "running"]_vars
  BY StepSafe DEF Allowed, StaysFinished
<1>2. QED
  BY <1>1, PipelineInvariant, PTL DEF Spec, NeverRestarted

\* onPipelineFinished sends a task to review only with a run whose steps have
\* all ended.
THEOREM ReviewAfterCompletion == Spec => ReviewNeedsCompletedRun
<1>1. IInv /\ [Next]_vars =>
        [task' = "quality_review" /\ task # "quality_review" =>
           \E r \in Runs :
               /\ run[r].linked
               /\ run[r].status = "running"
               /\ run'[r].status \in {"completed", "completed_with_errors"}
               /\ \A i \in Steps : run'[r].steps[i] \in {"completed", "failed"}]_vars
  BY StepSafe DEF Allowed, ReviewIsEarned
<1>2. QED
  BY <1>1, PipelineInvariant, PTL DEF Spec, ReviewNeedsCompletedRun

\* When no event slips in between import and spawn, handleStepExit, advanceRun
\* and the catch block of spawnStep take the steps one after the other.
THEOREM OrderOfSteps == Spec => [](~ImportYields => StepsInOrder)
<1>1. IInv => (~ImportYields => StepsInOrder)
  BY DEF IInv, Undisturbed
<1>2. QED
  BY <1>1, PipelineInvariant, PTL

\* When no event slips in, the status a run ends with tells the truth about its
\* steps: nothing failed, something failed and was allowed to, a step stopped
\* the run, or nothing is left to do.
THEOREM OutcomeIsTrue == Spec => [](~ImportYields => OutcomeMatchesSteps)
<1>1. IInv => (~ImportYields => OutcomeMatchesSteps)
  BY DEF IInv, Undisturbed
<1>2. QED
  BY <1>1, PipelineInvariant, PTL

\* When no event slips in, cancelRun has signalled the process of every step it
\* skipped, if this server spawned it.
THEOREM CancelSignals == Spec => [](~ImportYields => CancelReachesProcesses)
<1>1. IInv => (~ImportYields => CancelReachesProcesses)
  BY DEF IInv, Undisturbed
<1>2. QED
  BY <1>1, PipelineInvariant, PTL

---------------------------------------------------------------------------
(* The refinement of StepwiseRuns: moves of one run *)

RunMoves(r) ==
    \/ Promised!Start(r) \/ Promised!Cancel(r) \/ Promised!Delete(r)
    \/ \E i \in 1..StepCount : Promised!Stops(r, i) \/ Promised!CannotBegin(r, i)
    \/ \E i \in 1..StepCount, result \in Promised!Results :
         \/ Promised!StepEnds(r, i, result)
         \/ Promised!LastStepEnds(r, i, result)
         \/ Promised!NextCannotBegin(r, i, result)

\* Nothing of the run changes that StepwiseRuns speaks of.
Rests(r) ==
    /\ Phase(run'[r]) = Phase(run[r])
    /\ Tolerant(run'[r]) = Tolerant(run[r])
    /\ Outcome(run'[r]) = Outcome(run[r])

\* A run whose current step is being made.
Making(r) ==
    /\ run[r] \in Row /\ Orderly(run[r])
    /\ run[r].status = "running" /\ run[r].steps[run[r].cur] = "running"

\* Step j is in the new row what it was, or has no result in either.
Alike(r, j) ==
    \/ run'[r].steps[j] = run[r].steps[j]
    \/ run'[r].steps[j] \notin Ended /\ run[r].steps[j] \notin Ended

LEMMA OutcomeIs ==
    ASSUME NEW row, NEW j \in Steps
    PROVE  /\ Outcome(row)[j] = IF row.steps[j] \in Ended THEN row.steps[j] ELSE "open"
           /\ Outcome(row)[j] = "open" <=> row.steps[j] \notin Ended
BY DEF Outcome, Ended

LEMMA CurrentIsInTurn ==
    ASSUME NEW r \in Runs, Making(r)
    PROVE  /\ Promised!InTurn(r, run[r].cur)
           /\ Phase(run[r]) = "running"
           /\ run[r].cur \in 1..StepCount /\ run[r].cur \in Steps
           /\ StepCount \in Nat
<1> DEFINE i == run[r].cur
<1>1. i \in Steps /\ i \in Nat /\ StepCount \in Nat /\ Steps \subseteq Nat
  BY RowFields, PipelineAssumption DEF Making, Steps
<1>2. ASSUME NEW j \in Steps
      PROVE  run[r].steps[j] \notin Ended <=> j >= i
  BY <1>1 DEF Making, Orderly, Reached, Ended
<1>3. \A j \in Steps : Outcome(run[r])[j] = "open" <=> j >= i
  BY <1>2, OutcomeIs
<1> QED
  BY <1>1, <1>3 DEF Making, Phase, Promised!InTurn, Promised!Turns, Steps

LEMMA ToleratedIs ==
    ASSUME NEW r \in Runs, NEW i \in Steps, NEW result,
           result = "completed" \/ run[r].policy[i] = "continue"
    PROVE  Promised!Tolerated(r, i, result)
BY DEF Promised!Tolerated, Tolerant

LEMMA EndIs ==
    ASSUME NEW r \in Runs, run'[r].policy = run[r].policy, NEW results,
           \A j \in Steps : Outcome(run'[r])[j] =
               IF j \in DOMAIN results THEN results[j] ELSE Outcome(run[r])[j]
    PROVE  Promised!End(r, results)
<1>1. Outcome(run'[r]) =
        [j \in 1..StepCount |-> IF j \in DOMAIN results THEN results[j] ELSE Outcome(run[r])[j]]
  BY DEF Outcome, Steps
<1>2. Tolerant(run'[r]) = Tolerant(run[r])
  BY DEF Tolerant
<1> QED
  BY <1>1, <1>2 DEF Promised!End, Promised!Turns

\* One step ends, with a result.
LEMMA OneEnds ==
    ASSUME NEW r \in Runs, run'[r].policy = run[r].policy,
           NEW i \in Steps, run'[r].steps[i] \in Ended,
           \A j \in Steps \ {i} : Alike(r, j)
    PROVE  Promised!End(r, [j \in {i} |-> run'[r].steps[i]])
<1> DEFINE results == [j \in {i} |-> run'[r].steps[i]]
<1>1. \A j \in Steps : Outcome(run'[r])[j] =
        IF j \in DOMAIN results THEN results[j] ELSE Outcome(run[r])[j]
  BY OutcomeIs DEF Alike
<1> QED
  BY <1>1, EndIs

LEMMA StepEndsAs ==
    ASSUME NEW r \in Runs, Making(r), run'[r].policy = run[r].policy,
           run'[r].status = "running", run'[r].steps[run'[r].cur] = "running",
           run[r].cur + 1 \in Steps,
           \/ run'[r].steps[run[r].cur] = "completed"
           \/ run'[r].steps[run[r].cur] = "failed" /\ run[r].policy[run[r].cur] = "continue",
           \A j \in Steps \ {run[r].cur} : Alike(r, j)
    PROVE  RunMoves(r)
<1> DEFINE i == run[r].cur
<1> DEFINE result == run'[r].steps[i]
<1>1. /\ Promised!InTurn(r, i) /\ Phase(run[r]) = "running"
      /\ i \in 1..StepCount /\ i \in Steps /\ i < StepCount
  BY CurrentIsInTurn DEF Steps
<1>2. result \in Promised!Results /\ result \in Ended
  BY DEF Promised!Results, Ended
<1>3. Promised!End(r, [j \in {i} |-> result])
  BY <1>1, <1>2, OneEnds
<1>4. Promised!Tolerated(r, i, result)
  BY <1>1, ToleratedIs
<1>5. Phase(run'[r]) = "running"
  BY DEF Phase
<1>6. Promised!StepEnds(r, i, result)
  BY <1>1, <1>3, <1>4, <1>5 DEF Promised!StepEnds, Promised!Moves
<1> QED
  BY <1>1, <1>2, <1>6 DEF RunMoves

LEMMA LastStepEndsAs ==
    ASSUME NEW r \in Runs, Making(r), run'[r].policy = run[r].policy,
           run[r].cur = StepCount, run'[r].status = FinalStatus(run'[r].steps),
           \/ run'[r].steps[run[r].cur] = "completed"
           \/ run'[r].steps[run[r].cur] = "failed" /\ run[r].policy[run[r].cur] = "continue",
           \A j \in Steps \ {run[r].cur} : run'[r].steps[j] = run[r].steps[j]
    PROVE  RunMoves(r)
<1> DEFINE i == run[r].cur
<1> DEFINE result == run'[r].steps[i]
<1> DEFINE final == IF \A j \in Steps : Outcome(run'[r])[j] = "completed"
                    THEN "completed" ELSE "completed_with_errors"
<1>1. /\ Promised!InTurn(r, i) /\ Phase(run[r]) = "running"
      /\ i \in 1..StepCount /\ i \in Steps
  BY CurrentIsInTurn
<1>2. result \in Promised!Results /\ result \in Ended
  BY DEF Promised!Results, Ended
<1>3. Promised!End(r, [j \in {i} |-> result])
  BY <1>1, <1>2, OneEnds DEF Alike
<1>4. Promised!Tolerated(r, i, result)
  BY <1>1, ToleratedIs
<1>5. \A j \in Steps : run'[r].steps[j] \in Ended
  <2>1. \A j \in Steps : j # i => j < i
    BY <1>1, PipelineAssumption DEF Steps
  <2>2. \A j \in Steps : j < i => run[r].steps[j] \in Ended
    BY DEF Making, Orderly, Reached, Ended
  <2> QED
    BY <1>2, <2>1, <2>2
<1>6. \A j \in Steps : Outcome(run'[r])[j] = "completed" <=> run'[r].steps[j] # "failed"
  BY <1>5, OutcomeIs DEF Ended
<1>7. Phase(run'[r]) = final
  BY <1>6 DEF Phase, FinalStatus
<1>8. Promised!LastStepEnds(r, i, result)
  BY <1>1, <1>3, <1>4, <1>7 DEF Promised!LastStepEnds, Promised!Moves, Promised!Turns, Steps
<1> QED
  BY <1>1, <1>2, <1>8 DEF RunMoves

LEMMA StopsAs ==
    ASSUME NEW r \in Runs, Making(r), run'[r].policy = run[r].policy,
           run'[r].status = "failed", run'[r].steps[run[r].cur] = "failed",
           run[r].policy[run[r].cur] = "stop",
           \A j \in Steps \ {run[r].cur} : Alike(r, j)
    PROVE  RunMoves(r)
<1> DEFINE i == run[r].cur
<1>1. /\ Promised!InTurn(r, i) /\ Phase(run[r]) = "running"
      /\ i \in 1..StepCount /\ i \in Steps
  BY CurrentIsInTurn
<1>2. Promised!End(r, [j \in {i} |-> "failed"])
  <2>1. run'[r].steps[i] \in Ended
    BY DEF Ended
  <2> QED
    BY <1>1, <2>1, OneEnds
<1>3. i \notin Tolerant(run[r]) /\ Phase(run'[r]) = "failed"
  BY DEF Tolerant, Phase
<1>4. Promised!Stops(r, i)
  BY <1>1, <1>2, <1>3 DEF Promised!Stops, Promised!Moves
<1> QED
  BY <1>1, <1>4 DEF RunMoves

LEMMA CannotBeginAs ==
    ASSUME NEW r \in Runs, Making(r), run'[r].policy = run[r].policy,
           run'[r].status = "running", run'[r].cur = run[r].cur,
           run'[r].steps[run[r].cur] = "failed",
           \A j \in Steps \ {run[r].cur} : Alike(r, j)
    PROVE  RunMoves(r)
<1> DEFINE i == run[r].cur
<1>1. /\ Promised!InTurn(r, i) /\ Phase(run[r]) = "running"
      /\ i \in 1..StepCount /\ i \in Steps
  BY CurrentIsInTurn
<1>2. Promised!End(r, [j \in {i} |-> "failed"])
  <2>1. run'[r].steps[i] \in Ended
    BY DEF Ended
  <2> QED
    BY <1>1, <2>1, OneEnds
<1>3. Phase(run'[r]) = "stuck"
  BY DEF Phase
<1>4. Promised!CannotBegin(r, i)
  BY <1>1, <1>2, <1>3 DEF Promised!CannotBegin, Promised!Moves
<1> QED
  BY <1>1, <1>4 DEF RunMoves

LEMMA NextCannotBeginAs ==
    ASSUME NEW r \in Runs, Making(r), run'[r].policy = run[r].policy,
           run[r].cur + 1 \in Steps, run'[r].cur = run[r].cur + 1,
           \/ run'[r].status = "running"
           \/ run'[r].status = "failed" /\ run[r].policy[run[r].cur + 1] = "stop",
           \/ run'[r].steps[run[r].cur] = "completed"
           \/ run'[r].steps[run[r].cur] = "failed" /\ run[r].policy[run[r].cur] = "continue",
           run'[r].steps[run[r].cur + 1] = "failed",
           \A j \in Steps \ {run[r].cur, run[r].cur + 1} : Alike(r, j)
    PROVE  RunMoves(r)
<1> DEFINE i == run[r].cur
<1> DEFINE result == run'[r].steps[i]
<1> DEFINE results == [j \in {i, i + 1} |-> IF j = i THEN result ELSE "failed"]
<1>1. /\ Promised!InTurn(r, i) /\ Phase(run[r]) = "running"
      /\ i \in 1..StepCount /\ i \in Steps /\ i < StepCount /\ i + 1 # i
  BY CurrentIsInTurn DEF Steps
<1>2. result \in Promised!Results /\ result \in Ended /\ "failed" \in Ended
  BY DEF Promised!Results, Ended
<1>3. Promised!End(r, results)
  <2>1. ASSUME NEW j \in Steps
        PROVE  Outcome(run'[r])[j] = IF j \in DOMAIN results THEN results[j] ELSE Outcome(run[r])[j]
    <3>1. CASE j = i
      BY <1>1, <1>2, <3>1, OutcomeIs
    <3>2. CASE j = i + 1
      BY <1>1, <1>2, <3>2, OutcomeIs
    <3>3. CASE j \notin {i, i + 1}
      BY <3>3, OutcomeIs DEF Alike
    <3> QED
      BY <3>1, <3>2, <3>3
  <2> QED
    BY <2>1, EndIs
<1>4. Promised!Tolerated(r, i, result)
  BY <1>1, ToleratedIs
<1>5. \/ Phase(run'[r]) = "stuck"
      \/ Phase(run'[r]) = "failed" /\ i + 1 \notin Tolerant(run[r])
  BY DEF Phase, Tolerant
<1>6. Promised!NextCannotBegin(r, i, result)
  BY <1>1, <1>3, <1>4, <1>5 DEF Promised!NextCannotBegin, Promised!Moves
<1> QED
  BY <1>1, <1>2, <1>6 DEF RunMoves

\* Cancellation and deletion leave results as they are.
LEMMA LeavesAs ==
    ASSUME NEW r \in Runs, run[r] \in Row, run'[r].policy = run[r].policy,
           \A j \in Steps : Alike(r, j),
           \/ run[r].status = "running" /\ run'[r].status = "cancelled"
           \/ run[r].status \notin {"absent", "deleted"} /\ run'[r].status = "deleted"
    PROVE  RunMoves(r)
<1>1. Outcome(run'[r]) = Outcome(run[r])
  BY OutcomeIs DEF Outcome, Alike
<1>2. Tolerant(run'[r]) = Tolerant(run[r])
  BY DEF Tolerant
<1>3. CASE run[r].status = "running" /\ run'[r].status = "cancelled"
  <2>1. Phase(run[r]) \in {"running", "stuck"} /\ Phase(run'[r]) = "cancelled"
    BY <1>3 DEF Phase
  <2> QED
    BY <1>1, <1>2, <2>1 DEF RunMoves, Promised!Cancel, Promised!Moves, Promised!StepsKept
<1>4. CASE run[r].status \notin {"absent", "deleted"} /\ run'[r].status = "deleted"
  <2>1. Phase(run[r]) \notin {"none", "deleted"} /\ Phase(run'[r]) = "deleted"
    BY <1>4, RowFields DEF Phase, RunStatus, Terminal
  <2> QED
    BY <1>1, <1>2, <2>1 DEF RunMoves, Promised!Delete, Promised!StepsKept
<1> QED
  BY <1>3, <1>4

---------------------------------------------------------------------------
(* The refinement of StepwiseRuns: what a parked handler is about to store *)

\* The copy of a parked handler is the row, or the row with its current step
\* ended and the next one begun.
ParkedFollows ==
    \A c \in Parked :
        LET call == calls[c]
            row == run[call.run]
        IN  /\ row.steps[row.cur] = "running"
            /\ IF call.writesBack
               THEN /\ call.step = row.cur + 1
                    /\ \A j \in Steps : j < row.cur => call.steps[j] = row.steps[j]
               ELSE call.steps = row.steps

\* What holds between two events when none slips in
Quiet == IInv /\ ~ImportYields /\ ParkedFollows

\* One run moves, or none does.
Touches(r) == \A q \in Runs \ {r} : run'[q] = run[q]
Moved ==
    \/ \E r \in Runs : RunMoves(r) /\ Touches(r)
    \/ \A r \in Runs : Rests(r)

LEMMA QuietFacts ==
    ASSUME Quiet
    PROVE  /\ TypeOK /\ Always /\ Undisturbed /\ ~ImportYields
           /\ \A r \in Runs : run[r] \in Row /\ Orderly(run[r])
           /\ Steps \subseteq Nat /\ StepCount \in Nat
<1>1. TypeOK /\ Always /\ Undisturbed
  BY DEF Quiet, IInv, Always
<1>2. \A r \in Runs : run[r] \in Row /\ Orderly(run[r])
  BY <1>1, Types, RowsAre DEF Undisturbed
<1> QED
  BY <1>1, <1>2, PipelineAssumption DEF Quiet, Steps

LEMMA Resting ==
    ASSUME NEW r \in Runs, run'[r] = run[r]
    PROVE  Rests(r)
BY DEF Rests

LEMMA NothingParked == Parked' = {} => ParkedFollows'
BY DEF ParkedFollows

\* The three outcomes of step i: it stops the run, it was the last one, or the
\* run goes on.
StopsHere(row, next, i) ==
    /\ row.policy[i] = "stop"
    /\ next.status = "failed" /\ next.steps[i] = "failed"
    /\ \A j \in Steps : j > i => next.steps[j] = "skipped"
    /\ \A j \in Steps : j < i => next.steps[j] = row.steps[j]
EndsWell(row, next, i) ==
    \/ next.steps[i] = "completed"
    \/ next.steps[i] = "failed" /\ row.policy[i] = "continue"
IsThrough(row, next, i) ==
    /\ i = StepCount /\ EndsWell(row, next, i)
    /\ next.status = FinalStatus(next.steps)
    /\ \A j \in Steps \ {i} : next.steps[j] = row.steps[j]
GoesOn(row, next, i) ==
    /\ i + 1 \in Steps /\ EndsWell(row, next, i)
    /\ next.status = row.status /\ next.cur = i + 1 /\ next.steps[i + 1] = "running"
    /\ \A j \in Steps \ {i, i + 1} : next.steps[j] = row.steps[j]

LEMMA AfterStepCases ==
    ASSUME NEW row \in Row, NEW i \in Steps, NEW ok \in BOOLEAN,
           NEW next, next = AfterStep(row, i, ok)
    PROVE  /\ next \in Row /\ next.policy = row.policy
           /\ StopsHere(row, next, i) \/ IsThrough(row, next, i) \/ GoesOn(row, next, i)
           /\ \A j \in Steps : j < i => next.steps[j] = row.steps[j]
<1>1. i \in Nat /\ Steps \subseteq Nat
  BY PipelineAssumption DEF Steps
<1> QED
  BY <1>1, AfterStepIs DEF StopsHere, IsThrough, GoesOn, EndsWell

LEMMA AfterStepMoves ==
    ASSUME NEW r \in Runs, Making(r), NEW ok \in BOOLEAN,
           run'[r] = AfterStep(run[r], run[r].cur, ok)
    PROVE  RunMoves(r)
<1> DEFINE i == run[r].cur
<1> DEFINE next == run'[r]
<1>1. /\ i \in Steps /\ i \in Nat /\ Steps \subseteq Nat
      /\ run[r].status = "running" /\ run[r] \in Row
  BY RowFields, PipelineAssumption DEF Making, Steps
<1>2. /\ next.policy = run[r].policy
      /\ StopsHere(run[r], next, i) \/ IsThrough(run[r], next, i) \/ GoesOn(run[r], next, i)
  BY <1>1, AfterStepCases
<1>3. \A j \in Steps : j > i => run[r].steps[j] \notin Ended
  BY DEF Making, Orderly, Reached, Ended
<1>4. CASE StopsHere(run[r], next, i)
  <2>1. \A j \in Steps : j > i => next.steps[j] \notin Ended
    BY <1>4 DEF StopsHere, Ended
  <2>2. ASSUME NEW j \in Steps \ {i} PROVE Alike(r, j)
    <3>1. j > i \/ j < i
      BY <1>1
    <3> QED
      BY <1>3, <1>4, <2>1, <3>1 DEF StopsHere, Alike
  <2> QED
    BY <1>2, <1>4, <2>2, StopsAs DEF StopsHere
<1>5. CASE IsThrough(run[r], next, i)
  BY <1>2, <1>5, LastStepEndsAs DEF IsThrough, EndsWell
<1>6. CASE GoesOn(run[r], next, i)
  <2>1. i + 1 > i /\ "running" \notin Ended
    BY <1>1 DEF Ended
  <2>2. \A j \in Steps \ {i} : Alike(r, j)
    BY <1>3, <1>6, <2>1 DEF GoesOn, Alike
  <2> QED
    BY <1>1, <1>2, <1>6, <2>2, StepEndsAs DEF GoesOn, EndsWell
<1> QED
  BY <1>2, <1>4, <1>5, <1>6

\* The end of a step moves its run at once, or is parked with it.
LEMMA EndsMoves ==
    ASSUME Quiet, Parked = {}, NEW r \in Runs, NEW i \in Steps, NEW ok \in BOOLEAN,
           run[r].status = "running", run[r].steps[i] = "running", Ends(r, i, ok)
    PROVE  Moved /\ ParkedFollows'
<1> DEFINE next == AfterStep(run[r], i, ok)
<1>1. /\ TypeOK /\ run[r] \in Row /\ Orderly(run[r]) /\ i = run[r].cur /\ Making(r)
      /\ i \in Nat /\ Steps \subseteq Nat
  BY QuietFacts, RunningIsCurrent DEF Making
<1>2. /\ next \in Row /\ next.cur \in Steps /\ next.steps \in [Steps -> StepStatus]
      /\ next.status = "running" =>
           /\ next.cur = i + 1 /\ next.steps[next.cur] = "running"
           /\ \A j \in Steps : j < i => next.steps[j] = run[r].steps[j]
  <2>1. next \in Row
    BY <1>1, AfterStepCases
  <2>2. next.status = "running" => next.cur = i + 1 /\ next.steps[next.cur] = "running"
    BY <1>1, OrderAfter
  <2>3. \A j \in Steps : j < i => next.steps[j] = run[r].steps[j]
    BY <1>1, AfterStepCases
  <2> HIDE DEF next
  <2> QED
    BY <2>1, <2>2, <2>3, RowFields
<1>3. CASE /\ run' = [run EXCEPT ![r] = next]
           /\ \/ UNCHANGED calls
              \/ next.status = "running" /\ Park(r, next.cur, next.steps, FALSE)
  <2>1. run'[r] = next /\ Touches(r)
    BY <1>1, <1>3 DEF TypeOK, Touches
  <2>2. Moved
    BY <1>1, <2>1, AfterStepMoves DEF Moved
  <2>3. CASE UNCHANGED calls
    BY <2>2, <2>3, NothingParked DEF Parked
  <2>4. CASE next.status = "running" /\ Park(r, next.cur, next.steps, FALSE)
    <3> HIDE DEF next
    <3>1. PICK w \in BOOLEAN : w = FALSE /\ Park(r, next.cur, next.steps, w)
      BY <2>4
    <3>2. PICK c \in Calls \ Parked :
            /\ calls'[c].run = r /\ calls'[c].steps = next.steps
            /\ calls'[c].writesBack = w /\ Parked' = Parked \cup {c}
      BY <1>1, <2>4, <1>2, <3>1, ParkIs
    <3>3. ParkedFollows'
      BY <1>2, <2>1, <2>4, <3>1, <3>2 DEF ParkedFollows
    <3> QED
      BY <2>2, <3>3
  <2> QED
    BY <1>3, <2>3, <2>4
<1>4. CASE next.status = "running" /\ UNCHANGED run /\ Park(r, next.cur, next.steps, TRUE)
  <2> HIDE DEF next
  <2>1. PICK w \in BOOLEAN : w = TRUE /\ Park(r, next.cur, next.steps, w)
    BY <1>4
  <2>2. PICK c \in Calls \ Parked :
          /\ calls'[c].run = r /\ calls'[c].step = next.cur
          /\ calls'[c].steps = next.steps /\ calls'[c].writesBack = w
          /\ Parked' = Parked \cup {c}
          /\ \A d \in Parked : calls'[d] = calls[d]
    <3>1. TypeOK /\ next.cur \in Steps /\ next.steps \in [Steps -> StepStatus]
      BY <1>1, <1>2
    <3>2. Park(r, next.cur, next.steps, w)
      BY <2>1
    <3> QED
      BY <3>1, <3>2, ParkIs
  <2>3. ParkedFollows'
    <3>1. Parked' = {c} /\ calls'[c].writesBack
      BY <2>1, <2>2
    <3>2. run'[r] = run[r] /\ run[r].steps[run[r].cur] = "running" /\ next.cur = run[r].cur + 1
      BY <1>1, <1>2, <1>4
    <3>3. \A j \in Steps : j < run[r].cur => next.steps[j] = run[r].steps[j]
      BY <1>1, <1>2, <1>4
    <3> QED
      BY <2>2, <3>1, <3>2, <3>3 DEF ParkedFollows
  <2> QED
    BY <1>4, <2>3, Resting DEF Moved
<1> QED
  BY <1>3, <1>4 DEF Ends

LEMMA AdvanceMoves ==
    ASSUME Quiet, NEW r \in Runs, NEW ok \in BOOLEAN, AdvanceRun(r, ok)
    PROVE  Moved /\ ParkedFollows'
<1>1. /\ Parked = {} /\ run[r].status = "running" /\ run[r].steps[run[r].cur] = "running"
      /\ run[r].cur \in Steps
  BY QuietFacts, RowFields DEF AdvanceRun, NextEvent
<1> QED
  BY <1>1, AdvanceEnds, EndsMoves

LEMMA ExitMoves ==
    ASSUME Quiet, NEW k \in children, NEW ok \in BOOLEAN, ChildExits(k, ok)
    PROVE  Moved /\ ParkedFollows'
<1>1. Parked = {} /\ k.run \in Runs /\ k.step \in Steps
  BY QuietFacts, ExitIs DEF ChildExits, NextEvent
<1>2. CASE UNCHANGED <<run, task, calls>>
  BY <1>1, <1>2, Resting, NothingParked DEF Moved, Parked
<1>3. CASE /\ run[k.run].status = "running" /\ run[k.run].steps[k.step] = "running"
           /\ Ends(k.run, k.step, ok)
  BY <1>1, <1>3, EndsMoves
<1> QED
  BY <1>2, <1>3, QuietFacts, ExitIs

LEMMA StartMoves ==
    ASSUME Quiet, NEW r \in Runs, NEW policy \in [Steps -> {"stop", "continue"}],
           NEW auto \in BOOLEAN, NEW linked \in BOOLEAN, StartPipeline(r, policy, auto, linked)
    PROVE  Moved /\ ParkedFollows'
<1> DEFINE first == [i \in Steps |-> IF i = 1 THEN "running" ELSE "pending"]
<1> DEFINE row == [status |-> "running", cur |-> 1, steps |-> first,
                   policy |-> policy, auto |-> auto, linked |-> linked]
<1>1. /\ run[r].status = "absent" /\ run' = [run EXCEPT ![r] = row] /\ Parked = {}
      /\ Park(r, 1, row.steps, FALSE) \/ UNCHANGED calls
  BY QuietFacts DEF StartPipeline, NextEvent
<1>2. /\ 1 \in Steps /\ first \in [Steps -> StepStatus] /\ first[1] = "running"
      /\ \A j \in Steps : first[j] \notin Ended
  BY PipelineAssumption DEF Steps, StepStatus, Ended
<1>3. row.status = "running" /\ row.steps = first /\ row.cur = 1
  OBVIOUS
<1> HIDE DEF first, row
<1>4. run'[r] = row /\ Touches(r)
  BY <1>1, QuietFacts DEF TypeOK, Touches
<1>5. Phase(run[r]) = "none" /\ Phase(run'[r]) = "running"
  BY <1>1, <1>2, <1>3, <1>4 DEF Phase
<1>6. Outcome(run'[r]) = [i \in 1..StepCount |-> "open"]
  BY <1>2, <1>3, <1>4 DEF Outcome, Steps, Ended
<1>7. Tolerant(run'[r]) \subseteq 1..StepCount
  BY DEF Tolerant, Steps
<1>8. Promised!Start(r)
  BY <1>5, <1>6, <1>7 DEF Promised!Start, Promised!Moves, Promised!Turns
<1>9. Moved
  BY <1>4, <1>8 DEF Moved, RunMoves
<1>10. CASE UNCHANGED calls
  BY <1>1, <1>9, <1>10, NothingParked DEF Parked
<1>11. CASE Park(r, 1, row.steps, FALSE)
  <2>1. PICK w \in BOOLEAN : w = FALSE /\ Park(r, 1, row.steps, w)
    BY <1>11
  <2>2. PICK c \in Calls \ Parked :
          /\ calls'[c].run = r /\ calls'[c].steps = first
          /\ calls'[c].writesBack = w /\ Parked' = Parked \cup {c}
    BY <1>2, <1>3, <2>1, QuietFacts, ParkIs
  <2>3. ParkedFollows'
    BY <1>1, <1>2, <1>3, <1>4, <2>1, <2>2 DEF ParkedFollows
  <2> QED
    BY <1>9, <2>3
<1> QED
  BY <1>1, <1>10, <1>11

LEMMA CancelMoves ==
    ASSUME Quiet, NEW r \in Runs, CancelRun(r)
    PROVE  Moved /\ ParkedFollows'
<1>1. /\ Parked' = {}
      /\ run[r].status = "running" /\ run'[r].status = "cancelled"
      /\ \A i \in Steps : run'[r].steps[i] = IF run[r].steps[i] \in {"running", "pending"}
                                             THEN "skipped" ELSE run[r].steps[i]
      /\ Touches(r)
  BY QuietFacts, CancelIs DEF CancelRun, NextEvent, Parked, Touches
<1>2. \A j \in Steps : Alike(r, j)
  BY <1>1 DEF Alike, Ended
<1>3. run'[r].policy = run[r].policy
  BY QuietFacts DEF CancelRun, TypeOK, Row
<1>4. RunMoves(r)
  BY <1>1, <1>2, <1>3, QuietFacts, LeavesAs
<1> QED
  BY <1>1, <1>4, NothingParked DEF Moved

LEMMA DeleteMoves ==
    ASSUME Quiet, NEW r \in Runs, DeletePipeline(r)
    PROVE  Moved /\ ParkedFollows'
<1>1. /\ Parked' = {} /\ run[r].status \notin {"absent", "deleted"}
      /\ run' = [run EXCEPT ![r].status = "deleted"]
  BY QuietFacts DEF DeletePipeline, NextEvent, Parked
<1>2. /\ run'[r].status = "deleted" /\ run'[r].policy = run[r].policy
      /\ run'[r].steps = run[r].steps /\ Touches(r)
  BY <1>1, QuietFacts DEF TypeOK, Row, Touches
<1>3. RunMoves(r)
  BY <1>1, <1>2, QuietFacts, LeavesAs DEF Alike
<1> QED
  BY <1>1, <1>2, <1>3, NothingParked DEF Moved

\* What a handler that was parked finds when it goes on.
LEMMA ResumesWith ==
    ASSUME Quiet, NEW c \in Parked
    PROVE  LET call == calls[c]
               r == call.run
               i == run[r].cur
           IN  /\ call \in Call /\ r \in Runs /\ Making(r) /\ i \in Steps
               /\ call.step \in Steps /\ call.steps \in [Steps -> StepStatus]
               /\ call.steps[call.step] = "running"
               /\ ~call.writesBack => call.step = i /\ call.steps = run[r].steps
               /\ call.writesBack =>
                    /\ call.step = i + 1
                    /\ \/ call.steps[i] = "completed"
                       \/ call.steps[i] = "failed" /\ run[r].policy[i] = "continue"
                    /\ \A j \in Steps : j < i => call.steps[j] = run[r].steps[j]
               /\ \A j \in Steps : j > call.step => call.steps[j] \notin Ended
               /\ \A j \in Steps : j > i => run[r].steps[j] \notin Ended
<1> DEFINE call == calls[c]
<1> DEFINE r == call.run
<1> DEFINE i == run[r].cur
<1>1. call \in Call /\ r \in Runs /\ run[r] \in Row /\ i \in Steps /\ i \in Nat
  BY QuietFacts, Types, CallFields, RowFields
<1>2. /\ call.step \in Steps /\ call.steps \in [Steps -> StepStatus]
      /\ run[r].status = "running" /\ call.steps[call.step] = "running"
      /\ Reached(call.steps, run[r].policy, call.step)
  BY QuietFacts, ParkedIs
<1>3. /\ run[r].steps[i] = "running"
      /\ IF call.writesBack
         THEN /\ call.step = i + 1
              /\ \A j \in Steps : j < i => call.steps[j] = run[r].steps[j]
         ELSE call.steps = run[r].steps
      /\ ~call.writesBack => i = call.step
  BY QuietFacts DEF Quiet, ParkedFollows, Undisturbed, ParkedIsAhead
<1>4. Making(r) /\ Reached(run[r].steps, run[r].policy, i)
  BY <1>1, <1>2, <1>3, QuietFacts DEF Making, Orderly
<1>5. /\ \A j \in Steps : j > call.step => call.steps[j] \notin Ended
      /\ \A j \in Steps : j > i => run[r].steps[j] \notin Ended
  BY <1>2, <1>4 DEF Reached, Ended
<1>6. call.writesBack => \/ call.steps[i] = "completed"
                         \/ call.steps[i] = "failed" /\ run[r].policy[i] = "continue"
  BY <1>1, <1>2, <1>3 DEF Reached
<1> QED
  BY <1>1, <1>2, <1>3, <1>4, <1>5, <1>6

LEMMA LastUnparked ==
    ASSUME Quiet, NEW c \in Parked, Unpark(c)
    PROVE  Parked' = {}
BY QuietFacts, UnparkIs DEF Undisturbed, OneParked

LEMMA SpawnMoves ==
    ASSUME Quiet, NEW c \in Calls, SpawnSucceeds(c)
    PROVE  Moved /\ ParkedFollows'
<1> DEFINE call == calls[c]
<1> DEFINE r == call.run
<1> DEFINE i == run[r].cur
<1>1. c \in Parked
  BY DEF SpawnSucceeds
<1>2. /\ call \in Call /\ r \in Runs /\ Making(r) /\ i \in Steps /\ i \in Nat
      /\ call.step \in Steps /\ call.steps \in [Steps -> StepStatus]
      /\ call.steps[call.step] = "running"
      /\ run[r].status = "running" /\ "running" \in RunStatus
  BY <1>1, ResumesWith, QuietFacts DEF Making, RunStatus
<1>3. Unpark(c) /\ Store(call, call.steps, "running")
  BY <1>1, <1>2, SpawnIs, QuietFacts
<1>4. /\ run'[r].status = "running" /\ run'[r].steps = call.steps
      /\ run'[r].cur = IF call.writesBack THEN call.step ELSE i
      /\ run'[r].policy = run[r].policy
      /\ Touches(r)
  BY <1>2, <1>3, StoreIs, QuietFacts DEF Touches
<1>5. ParkedFollows'
  BY <1>1, <1>3, LastUnparked, NothingParked
<1>6. CASE ~call.writesBack
  <2>1. run'[r].steps = run[r].steps /\ run'[r].cur = run[r].cur
    BY <1>1, <1>4, <1>6, ResumesWith
  <2>2. Rests(r)
    BY <1>2, <1>4, <2>1 DEF Rests, Phase, Tolerant, Outcome
  <2> QED
    BY <1>4, <1>5, <2>2, Resting DEF Moved, Touches
<1>7. CASE call.writesBack
  <2>1. /\ call.step = i + 1
        /\ \/ call.steps[i] = "completed"
           \/ call.steps[i] = "failed" /\ run[r].policy[i] = "continue"
        /\ \A j \in Steps : j < i => call.steps[j] = run[r].steps[j]
        /\ \A j \in Steps : j > call.step => call.steps[j] \notin Ended
        /\ \A j \in Steps : j > i => run[r].steps[j] \notin Ended
    BY <1>1, <1>7, ResumesWith
  <2>2. ASSUME NEW j \in Steps \ {i} PROVE Alike(r, j)
    <3>1. j < i \/ j = i + 1 \/ j > i + 1
      BY <1>2, QuietFacts
    <3>2. j = i + 1 => run'[r].steps[j] \notin Ended /\ run[r].steps[j] \notin Ended
      BY <1>2, <1>4, <2>1 DEF Ended
    <3>3. j > i + 1 => j > i
      BY <1>2, QuietFacts
    <3> QED
      BY <1>4, <2>1, <3>1, <3>2, <3>3 DEF Alike
  <2>3. RunMoves(r)
    BY <1>2, <1>4, <1>7, <2>1, <2>2, StepEndsAs
  <2> QED
    BY <1>2, <1>4, <1>5, <2>3 DEF Moved
<1> QED
  BY <1>6, <1>7

LEMMA ThrowMoves ==
    ASSUME Quiet, NEW c \in Calls, SpawnThrows(c)
    PROVE  Moved /\ ParkedFollows'
<1> DEFINE call == calls[c]
<1> DEFINE r == call.run
<1> DEFINE i == run[r].cur
<1> DEFINE n == call.step
<1> DEFINE failed == [call.steps EXCEPT ![n] = "failed"]
<1>1. c \in Parked
  BY DEF SpawnThrows
<1>2. /\ call \in Call /\ r \in Runs /\ Making(r) /\ i \in Steps /\ i \in Nat
      /\ n \in Steps /\ n \in Nat /\ call.steps \in [Steps -> StepStatus]
      /\ run[r].status = "running" /\ {"running", "failed"} \subseteq RunStatus
  BY <1>1, ResumesWith, QuietFacts DEF Making, RunStatus, Terminal
<1>3. /\ failed \in [Steps -> StepStatus]
      /\ SkipAfter(failed, n) \in [Steps -> StepStatus]
      /\ Unpark(c)
      /\ \/ run[r].policy[n] = "stop" /\ Store(call, SkipAfter(failed, n), "failed")
         \/ Store(call, failed, "running")
  BY <1>1, <1>2, ThrowIs, QuietFacts
<1>4. failed[n] = "failed" /\ \A j \in Steps \ {n} : failed[j] = call.steps[j]
  BY <1>2
<1>5. \A j \in Steps : SkipAfter(failed, n)[j] = IF j > n THEN "skipped" ELSE failed[j]
  BY DEF SkipAfter
<1> HIDE DEF failed
<1>6. ParkedFollows'
  BY <1>1, <1>3, LastUnparked, NothingParked
<1>7. /\ \/ run'[r].status = "running"
         \/ run'[r].status = "failed" /\ run[r].policy[n] = "stop"
      /\ run'[r].cur = IF call.writesBack THEN n ELSE i
      /\ run'[r].policy = run[r].policy
      /\ Touches(r)
      /\ \A j \in Steps : \/ run'[r].steps[j] = failed[j]
                          \/ j > n /\ run'[r].steps[j] = "skipped"
  <2>1. CASE run[r].policy[n] = "stop" /\ Store(call, SkipAfter(failed, n), "failed")
    <3>1. /\ run'[r].status = "failed" /\ run'[r].steps = SkipAfter(failed, n)
          /\ run'[r].cur = IF call.writesBack THEN n ELSE i
          /\ run'[r].policy = run[r].policy
          /\ Touches(r)
      BY <1>2, <1>3, <2>1, StoreIs, QuietFacts DEF Touches
    <3> QED
      BY <1>5, <2>1, <3>1
  <2>2. CASE Store(call, failed, "running")
    <3>1. /\ run'[r].status = "running" /\ run'[r].steps = failed
          /\ run'[r].cur = IF call.writesBack THEN n ELSE i
          /\ run'[r].policy = run[r].policy
          /\ Touches(r)
      BY <1>2, <1>3, <2>2, StoreIs, QuietFacts DEF Touches
    <3> QED
      BY <3>1
  <2> QED
    BY <1>3, <2>1, <2>2
<1>8. /\ run'[r].steps[n] = "failed"
      /\ \A j \in Steps : j < n => run'[r].steps[j] = call.steps[j]
      /\ \A j \in Steps : j > n => run'[r].steps[j] \notin Ended
  <2>1. run'[r].steps[n] = "failed"
    BY <1>2, <1>4, <1>7
  <2>2. \A j \in Steps : j < n => run'[r].steps[j] = call.steps[j]
    BY <1>2, <1>4, <1>7, QuietFacts
  <2>3. \A j \in Steps : j > n => call.steps[j] \notin Ended
    BY <1>1, ResumesWith
  <2>4. \A j \in Steps : j > n => run'[r].steps[j] \notin Ended
    BY <1>2, <1>4, <1>7, <2>3, QuietFacts DEF Ended
  <2> QED
    BY <2>1, <2>2, <2>4
<1>9. CASE ~call.writesBack
  <2>1. n = i /\ call.steps = run[r].steps /\ \A j \in Steps : j > i => run[r].steps[j] \notin Ended
    BY <1>1, <1>9, ResumesWith
  <2>2. ASSUME NEW j \in Steps \ {i} PROVE Alike(r, j)
    <3>1. j < i \/ j > i
      BY <1>2, QuietFacts
    <3> QED
      BY <1>8, <2>1, <3>1 DEF Alike
  <2>3. RunMoves(r)
    BY <1>2, <1>7, <1>8, <1>9, <2>1, <2>2, CannotBeginAs, StopsAs
  <2> QED
    BY <1>2, <1>6, <1>7, <2>3 DEF Moved
<1>10. CASE call.writesBack
  <2>1. /\ n = i + 1
        /\ \/ call.steps[i] = "completed"
           \/ call.steps[i] = "failed" /\ run[r].policy[i] = "continue"
        /\ \A j \in Steps : j < i => call.steps[j] = run[r].steps[j]
        /\ \A j \in Steps : j > i => run[r].steps[j] \notin Ended
    BY <1>1, <1>10, ResumesWith
  <2>2. ASSUME NEW j \in Steps \ {i, i + 1} PROVE Alike(r, j)
    <3>1. (j < i /\ j < n) \/ (j > i /\ j > n)
      BY <1>2, <2>1, QuietFacts
    <3> QED
      BY <1>8, <2>1, <3>1 DEF Alike
  <2>3. run'[r].steps[i] = call.steps[i]
    BY <1>2, <1>8, <2>1
  <2>4. RunMoves(r)
    BY <1>2, <1>7, <1>8, <1>10, <2>1, <2>2, <2>3, NextCannotBeginAs
  <2> QED
    BY <1>2, <1>6, <1>7, <2>4 DEF Moved
<1> QED
  BY <1>9, <1>10

---------------------------------------------------------------------------
(* The refinement of StepwiseRuns *)

LEMMA EveryStepMoves ==
    ASSUME Quiet, [Next]_vars
    PROVE  Moved /\ ParkedFollows'
<1>1. CASE UNCHANGED vars
  BY <1>1, Resting DEF vars, Moved, Quiet, ParkedFollows, Parked
<1>2. ASSUME NEW r \in Runs,
             \/ \E policy \in [Steps -> {"stop", "continue"}], auto, linked \in BOOLEAN :
                  StartPipeline(r, policy, auto, linked)
             \/ \E ok \in BOOLEAN : AdvanceRun(r, ok)
             \/ CancelRun(r)
             \/ DeletePipeline(r)
      PROVE  Moved /\ ParkedFollows'
  BY <1>2, StartMoves, AdvanceMoves, CancelMoves, DeleteMoves
<1>3. ASSUME NEW i \in Steps, DeleteTemplate(i) PROVE Moved /\ ParkedFollows'
  BY <1>3, Resting DEF DeleteTemplate, Moved, Quiet, ParkedFollows, Parked
<1>4. ASSUME NEW c \in Calls, SpawnSucceeds(c) \/ SpawnThrows(c) PROVE Moved /\ ParkedFollows'
  BY <1>4, SpawnMoves, ThrowMoves
<1>5. ASSUME NEW k \in children, NEW ok \in BOOLEAN, ChildExits(k, ok)
      PROVE  Moved /\ ParkedFollows'
  BY <1>5, ExitMoves
<1>6. CASE Crash
  BY <1>6, QuietFacts, CrashIs, Resting, NothingParked DEF Moved
<1> QED
  BY <1>1, <1>2, <1>3, <1>4, <1>5, <1>6 DEF Next

LEMMA StartsUnstarted == Init => Promised!Init /\ ParkedFollows
<1> SUFFICES ASSUME Init PROVE Promised!Init /\ ParkedFollows
  OBVIOUS
<1>1. Parked = {} /\ \A r \in Runs : run[r] = NoRow
  BY DEF Init, Parked
<1>2. Phase(NoRow) = "none"
  BY DEF NoRow, Phase
<1>3. Tolerant(NoRow) = {}
  BY DEF NoRow, Tolerant
<1>4. Outcome(NoRow) = [i \in 1..StepCount |-> "open"]
  BY DEF NoRow, Outcome, Steps
<1> QED
  BY <1>1, <1>2, <1>3, <1>4 DEF Promised!Init, Promised!Turns, ParkedFollows

LEMMA MovedIsPromised == Moved => [Promised!Next]_(Promised!runs)
<1>1. ASSUME NEW r \in Runs, RunMoves(r), Touches(r) PROVE Promised!Next
  <2>1. \A q \in Runs \ {r} : Rests(q)
    BY <1>1, Resting DEF Touches
  <2>2. \A q \in Runs \ {r} :
          /\ [s \in Runs |-> Phase(run[s])]'[q] = [s \in Runs |-> Phase(run[s])][q]
          /\ Promised!StepsKept(q)
    BY <2>1 DEF Rests, Promised!StepsKept
  <2> QED
    BY <1>1, <2>2 DEF RunMoves, Promised!Next, Promised!Turns
<1>2. ASSUME \A r \in Runs : Rests(r) PROVE UNCHANGED Promised!runs
  BY <1>2 DEF Rests, Promised!runs
<1> QED
  BY <1>1, <1>2 DEF Moved

\* As long as no event slips in between import and spawn, exits, advances,
\* cancellations, failing spawns, deletions and restarts make of every run what
\* StepwiseRuns promises: each step ends once and in its turn, on_failure decides
\* whether the run goes on, and the final status is what the steps made of it.
THEOREM StepwiseRunsImplemented == ~ImportYields => (Spec => ImplementsStepwiseRuns)
<1> SUFFICES ASSUME ~ImportYields PROVE Spec => ImplementsStepwiseRuns
  OBVIOUS
<1>1. Init => Promised!Init /\ ParkedFollows
  BY StartsUnstarted
<1>2. IInv /\ ParkedFollows /\ [Next]_vars => ParkedFollows' /\ [Promised!Next]_(Promised!runs)
  BY EveryStepMoves, MovedIsPromised DEF Quiet
<1> QED
  BY <1>1, <1>2, PipelineInvariant, PTL DEF Spec, ImplementsStepwiseRuns, Promised!Spec
=============================================================================
