---------------------------- MODULE PipelineRun ----------------------------
(***************************************************************************)
(* Pipeline runs: src/app/api/pipelines/run/route.ts.                      *)
(*                                                                         *)
(* A run executes the steps of a pipeline one after the other.  Each step  *)
(* is a child process; the run itself is a row of pipeline_runs.  The row  *)
(* is changed by three parties: the exit handler of a child, the operator  *)
(* (advance, cancel), and spawnStep, which every one of them calls.        *)
(*                                                                         *)
(* The server is one Node process with synchronous SQLite calls, so a      *)
(* handler is atomic between two awaits.  The only await inside the route  *)
(* is the dynamic import at the head of spawnStep: a caller that reaches   *)
(* it is parked in calls with its in-memory copy of the steps, and Resume  *)
(* is the rest of spawnStep and of the caller.  ImportYields = FALSE says  *)
(* that the import resolves in the microtask queue, before the next event; *)
(* ImportYields = TRUE lets any other event in first.                      *)
(***************************************************************************)
EXTENDS Naturals, FiniteSets

CONSTANTS
    Runs,            \* identities of pipeline_runs rows
    StepCount,       \* number of steps of the pipeline
    Calls,           \* slots for handlers parked at the import
    MaxSpawns,       \* bound: child processes spawned in a behaviour
    MaxCrashes,      \* bound: crashes of the server in a behaviour
    ImportYields,    \* may another event run while an import is pending?
    SpawnCanThrow,   \* may the log file or the spawn fail synchronously?
    MutableCatalog   \* may templates and pipelines be deleted during a run?

ASSUME PipelineAssumption ==
    /\ StepCount \in Nat \ {0}
    /\ MaxSpawns \in Nat
    /\ MaxCrashes \in Nat
    /\ ImportYields \in BOOLEAN
    /\ SpawnCanThrow \in BOOLEAN
    /\ MutableCatalog \in BOOLEAN

VARIABLES
    run,        \* the pipeline_runs table
    templates,  \* the steps whose workflow template still exists
    task,       \* status of the task the linked runs belong to
    children,   \* child processes whose exit event was not delivered yet
    tracked,    \* runningProcesses: the child cancel would signal, 0 if none
    calls,      \* handlers parked at the import of spawnStep
    spawns,     \* children spawned so far
    crashes     \* crashes so far

vars == <<run, templates, task, children, tracked, calls, spawns, crashes>>

Steps == 1..StepCount
StepStatus == {"pending", "running", "completed", "failed", "skipped"}
Terminal == {"completed", "completed_with_errors", "failed", "cancelled"}
RunStatus == {"absent", "running", "deleted"} \cup Terminal

Row == [status : RunStatus,
        cur    : Steps,                           \* current_step
        steps  : [Steps -> StepStatus],           \* steps_snapshot[i].status
        policy : [Steps -> {"stop", "continue"}], \* steps_snapshot[i].on_failure
        auto   : BOOLEAN,                         \* auto_advance
        linked : BOOLEAN]                         \* task_id is set

NoRow == [status |-> "absent", cur |-> 1,
          steps  |-> [i \in Steps |-> "pending"],
          policy |-> [i \in Steps |-> "stop"],
          auto   |-> FALSE, linked |-> FALSE]

\* hasPid: the executable was found.  watched: the server that spawned the
\* child is still up and will see its exit.  killed: cancel signalled it.
Child == [id : 1..MaxSpawns, run : Runs, step : Steps,
          hasPid : BOOLEAN, watched : BOOLEAN, killed : BOOLEAN]

\* writesBack: the parked caller is advanceRun, which stores current_step and
\* its own copy of the steps once spawnStep has returned.
Call == [run : Runs, step : Steps, steps : [Steps -> StepStatus],
         writesBack : BOOLEAN]
NoCall == [none |-> TRUE]

TypeOK ==
    /\ run \in [Runs -> Row]
    /\ templates \subseteq Steps
    /\ task \in {"other", "in_progress", "quality_review"}
    /\ children \subseteq Child
    /\ tracked \in [Runs \X Steps -> 0..MaxSpawns]
    /\ calls \in [Calls -> Call \cup {NoCall}]
    /\ spawns \in 0..MaxSpawns
    /\ crashes \in 0..MaxCrashes

Init ==
    /\ run = [r \in Runs |-> NoRow]
    /\ templates = Steps
    /\ task = "other"
    /\ children = {}
    /\ tracked = [k \in Runs \X Steps |-> 0]
    /\ calls = [c \in Calls |-> NoCall]
    /\ spawns = 0
    /\ crashes = 0

---------------------------------------------------------------------------
(* Helpers *)

Parked == {c \in Calls : calls[c] # NoCall}

\* The event loop takes the next event: the microtasks of the previous one
\* are done, unless an import really suspends.
NextEvent == ImportYields \/ Parked = {}

Park(r, i, steps, writesBack) ==
    \E c \in Calls \ Parked :
        calls' = [calls EXCEPT ![c] = [run |-> r, step |-> i, steps |-> steps,
                                       writesBack |-> writesBack]]

\* (mutant) The step right after the failed one is forgotten.
SkipAfterNext(steps, i) == [j \in Steps |-> IF j > i + 1 THEN "skipped" ELSE steps[j]]

SkipAfter(steps, i) == [j \in Steps |-> IF j > i THEN "skipped" ELSE steps[j]]

FinalStatus(steps) ==
    IF \E i \in Steps : steps[i] = "failed" THEN "completed_with_errors"
                                            ELSE "completed"

\* (mutant) The last step is not recognised.
AfterStepNoLast(row, i, ok) ==
    LET done == [row.steps EXCEPT ![i] = IF ok THEN "completed" ELSE "failed"]
    IN  CASE ~ok /\ row.policy[i] = "stop" ->
               [row EXCEPT !.status = "failed", !.cur = i, !.steps = SkipAfter(done, i)]
          [] OTHER ->
               [row EXCEPT !.cur = i + 1, !.steps = [done EXCEPT ![i + 1] = "running"]]

\* What handleStepExit and advanceRun make of a row when step i has ended.
AfterStep(row, i, ok) ==
    LET done == [row.steps EXCEPT ![i] = IF ok THEN "completed" ELSE "failed"]
    IN  CASE ~ok /\ row.policy[i] = "stop" ->
               [row EXCEPT !.status = "failed", !.cur = i, !.steps = SkipAfter(done, i)]
          [] (ok \/ row.policy[i] # "stop") /\ i = StepCount ->
               [row EXCEPT !.status = FinalStatus(done), !.cur = i, !.steps = done]
          [] OTHER ->
               [row EXCEPT !.cur = i + 1, !.steps = [done EXCEPT ![i + 1] = "running"]]

\* (mutant) A failed run is sent to review like any other.
OnPipelineFinishedAnyway(row) ==
    task' = IF row.linked /\ row.status \in Terminal THEN "quality_review" ELSE task

\* onPipelineFinished: the linked task follows a run that has just finished.
OnPipelineFinished(row) ==
    task' = CASE ~row.linked \/ row.status \notin Terminal -> task
              [] row.linked /\ row.status = "failed"       -> "in_progress"
              [] OTHER                                     -> "quality_review"

---------------------------------------------------------------------------
(* Requests *)

\* startPipeline.  The first step is stored as running before it is spawned,
\* and stays so with no process behind it when its template is gone.
StartPipeline(r, policy, auto, linked) ==
    /\ NextEvent
    /\ run[r].status = "absent"
    /\ LET row == [status |-> "running", cur |-> 1,
                   steps  |-> [i \in Steps |-> IF i = 1 THEN "running" ELSE "pending"],
                   policy |-> policy, auto |-> auto, linked |-> linked]
       IN  /\ run' = [run EXCEPT ![r] = row]
           /\ IF 1 \in templates THEN Park(r, 1, row.steps, FALSE)
                                 ELSE UNCHANGED calls
    /\ task' = IF linked THEN "in_progress" ELSE task
    /\ UNCHANGED <<templates, children, tracked, spawns, crashes>>

\* advanceRun.  When a next step has to be spawned nothing is stored until
\* spawnStep comes back.
AdvanceRun(r, ok) ==
    /\ NextEvent
    /\ run[r].status = "running"
    /\ LET row  == run[r]
           next == AfterStep(row, row.cur, ok)
           spawning == next.status = "running" /\ next.cur \in templates
       IN  /\ row.steps[row.cur] = "running"
           /\ IF spawning
              THEN Park(r, next.cur, next.steps, TRUE) /\ UNCHANGED run
              ELSE run' = [run EXCEPT ![r] = next] /\ UNCHANGED calls
           /\ OnPipelineFinished(next)
    /\ UNCHANGED <<templates, children, tracked, spawns, crashes>>

\* cancelRun: signal the tracked child of every running step, skip what has
\* not ended.  The linked task is left as it is.
CancelRun(r) ==
    /\ NextEvent
    /\ run[r].status = "running"
    /\ LET row  == run[r]
           live == {i \in Steps : row.steps[i] = "running"}
           hit  == {tracked[<<r, i>>] : i \in live}
       IN  /\ run' = [run EXCEPT ![r].status = "cancelled",
                                 ![r].steps = [i \in Steps |->
                                     IF row.steps[i] \in {"running", "pending"}
                                     THEN "skipped" ELSE row.steps[i]]]
           /\ children' = {[k EXCEPT !.killed = @ \/ k.id \in hit] : k \in children}
           /\ tracked' = [k \in Runs \X Steps |->
                             IF k[1] = r /\ k[2] \in live THEN 0 ELSE tracked[k]]
    /\ UNCHANGED <<templates, task, calls, spawns, crashes>>

\* DELETE /api/workflows: the template of a step goes away.
DeleteTemplate(i) ==
    /\ NextEvent
    /\ MutableCatalog
    /\ i \in templates
    /\ templates' = templates \ {i}
    /\ UNCHANGED <<run, task, children, tracked, calls, spawns, crashes>>

\* DELETE /api/pipelines: the foreign key of pipeline_runs cascades, so the
\* row disappears under the processes and handlers that work on it.
DeletePipeline(r) ==
    /\ NextEvent
    /\ MutableCatalog
    /\ run[r].status \notin {"absent", "deleted"}
    /\ run' = [run EXCEPT ![r].status = "deleted"]
    /\ UNCHANGED <<templates, task, children, tracked, calls, spawns, crashes>>

---------------------------------------------------------------------------
(* spawnStep, from the import on, and the tail of its caller *)

Unpark(c) == calls' = [calls EXCEPT ![c] = NoCall]

\* (mutant) A successful spawn declares the run running.
StoreRunning(call, steps, status) ==
    run' = IF run[call.run].status = "deleted" THEN run
           ELSE [run EXCEPT ![call.run].steps = steps,
                            ![call.run].status = "running",
                            ![call.run].cur = IF call.writesBack THEN call.step ELSE @]

\* The UPDATE statements of spawnStep and of the tail of advanceRun do not
\* look at the row they overwrite; on a deleted row they change nothing.
Store(call, steps, status) ==
    run' = IF run[call.run].status = "deleted" THEN run
           ELSE [run EXCEPT ![call.run].steps = steps,
                            ![call.run].status = status,
                            ![call.run].cur = IF call.writesBack THEN call.step ELSE @]

SpawnSucceeds(c) ==
    /\ c \in Parked
    /\ spawns < MaxSpawns
    /\ LET call == calls[c]
           id   == spawns + 1
       IN  \E found \in BOOLEAN :
             /\ children' = children \cup
                  {[id |-> id, run |-> call.run, step |-> call.step,
                    hasPid |-> found, watched |-> TRUE, killed |-> FALSE]}
             /\ tracked' = IF found THEN [tracked EXCEPT ![<<call.run, call.step>>] = id]
                                    ELSE tracked
             /\ spawns' = id
             /\ Store(call, call.steps, run[call.run].status)
    /\ Unpark(c)
    /\ UNCHANGED <<templates, task, crashes>>

\* The catch block: the step fails, and only with on_failure = stop and
\* auto_advance does the run fail with it.
SpawnThrows(c) ==
    /\ c \in Parked
    /\ SpawnCanThrow
    /\ LET call == calls[c]
           row  == run[call.run]
           failed == [call.steps EXCEPT ![call.step] = "failed"]
       IN  IF row.auto /\ row.policy[call.step] = "stop"
           THEN Store(call, SkipAfter(failed, call.step), "failed")
           ELSE Store(call, failed, row.status)
    /\ Unpark(c)
    /\ UNCHANGED <<templates, task, children, tracked, spawns, crashes>>

---------------------------------------------------------------------------
(* Children and the server process *)

\* (mutant) The next step is stored as running but not spawned.
HandleStepExitNoSpawn(r, i, ok) ==
    IF run[r].status = "running" /\ run[r].steps[i] = "running"
    THEN LET next == AfterStep(run[r], i, ok)
         IN  /\ run' = [run EXCEPT ![r] = next]
             /\ OnPipelineFinished(next)
             /\ UNCHANGED calls
    ELSE UNCHANGED <<run, task, calls>>

\* (mutant) The exit of a step that was advanced by hand counts once more.
HandleStepExitTwice(r, i, ok) ==
    IF run[r].status = "running"
    THEN LET next == AfterStep(run[r], i, ok)
         IN  /\ run' = [run EXCEPT ![r] = next]
             /\ OnPipelineFinished(next)
             /\ IF next.status = "running" /\ next.cur \in templates
                THEN Park(r, next.cur, next.steps, FALSE)
                ELSE UNCHANGED calls
    ELSE UNCHANGED <<run, task, calls>>

\* handleStepExit, run by the exit or error event of a watched child.
HandleStepExit(r, i, ok) ==
    IF run[r].status = "running" /\ run[r].steps[i] = "running"
    THEN LET next == AfterStep(run[r], i, ok)
         IN  /\ run' = [run EXCEPT ![r] = next]
             /\ OnPipelineFinished(next)
             /\ IF next.status = "running" /\ next.cur \in templates
                THEN Park(r, next.cur, next.steps, FALSE)
                ELSE UNCHANGED calls
    ELSE UNCHANGED <<run, task, calls>>

\* (mutant) The exit of one child drops the pids of the whole run.
ChildExitsForgetsRun(k, ok) ==
    /\ NextEvent
    /\ k \in children
    /\ ok => k.hasPid
    /\ children' = children \ {k}
    /\ tracked' = [x \in Runs \X Steps |->
                      IF k.watched /\ x[1] = k.run THEN 0 ELSE tracked[x]]
    /\ IF k.watched /\ run[k.run].auto
       THEN HandleStepExit(k.run, k.step, ok)
       ELSE UNCHANGED <<run, task, calls>>
    /\ UNCHANGED <<templates, spawns, crashes>>

\* A child ends (or was never found: an error event) and its event is
\* delivered.  A child of an earlier server process ends unseen.
ChildExits(k, ok) ==
    /\ NextEvent
    /\ k \in children
    /\ ok => k.hasPid
    /\ children' = children \ {k}
    /\ tracked' = IF k.watched THEN [tracked EXCEPT ![<<k.run, k.step>>] = 0] ELSE tracked
    /\ IF k.watched /\ run[k.run].auto
       THEN HandleStepExit(k.run, k.step, ok)
       ELSE UNCHANGED <<run, task, calls>>
    /\ UNCHANGED <<templates, spawns, crashes>>

\* (mutant) The pids are kept on disk across a restart.
CrashKeepsPids ==
    /\ crashes < MaxCrashes
    /\ crashes' = crashes + 1
    /\ calls' = [c \in Calls |-> NoCall]
    /\ children' = {[k EXCEPT !.watched = FALSE] : k \in children}
    /\ UNCHANGED <<run, templates, task, tracked, spawns>>

\* The server dies and restarts: memory and parked handlers are lost, the
\* children live on, the rows stay as they were.
Crash ==
    /\ crashes < MaxCrashes
    /\ crashes' = crashes + 1
    /\ calls' = [c \in Calls |-> NoCall]
    /\ tracked' = [k \in Runs \X Steps |-> 0]
    /\ children' = {[k EXCEPT !.watched = FALSE] : k \in children}
    /\ UNCHANGED <<run, templates, task, spawns>>

---------------------------------------------------------------------------
Next ==
    \/ \E r \in Runs :
         \/ \E policy \in [Steps -> {"stop", "continue"}], auto, linked \in BOOLEAN :
              StartPipeline(r, policy, auto, linked)
         \/ \E ok \in BOOLEAN : AdvanceRun(r, ok)
         \/ CancelRun(r)
         \/ DeletePipeline(r)
    \/ \E i \in Steps : DeleteTemplate(i)
    \/ \E c \in Calls : SpawnSucceeds(c) \/ SpawnThrows(c)
    \/ \E k \in children, ok \in BOOLEAN : ChildExits(k, ok)
    \/ Crash

Spec == Init /\ [][Next]_vars

\* The event loop runs a pending import to its end, and `openclaw agent
\* --timeout` bounds the life of a child.  Operators owe nothing.
FairSpec ==
    /\ Spec
    /\ \A c \in Calls : WF_vars(SpawnSucceeds(c) \/ SpawnThrows(c))
    /\ \A r \in Runs, i \in Steps :
         WF_vars(\E k \in children, ok \in BOOLEAN :
                    k.run = r /\ k.step = i /\ ChildExits(k, ok))

---------------------------------------------------------------------------
(* What never fails, however the handlers interleave *)

\* A pid kept in runningProcesses belongs to a live child of this very server
\* process: cancel can never signal a process it does not own ("safe from PID
\* reuse after restart").
TrackedPidsAreLive ==
    \A r \in Runs, i \in Steps :
        tracked[<<r, i>>] # 0 =>
            \E k \in children : /\ k.id = tracked[<<r, i>>]
                                /\ k.run = r /\ k.step = i
                                /\ k.hasPid /\ k.watched

\* A finished run is never started again: none of the blind UPDATEs of
\* spawnStep and advanceRun puts a terminal status back to running.
NeverRestarted ==
    [][\A r \in Runs : run[r].status \in Terminal => run'[r].status # "running"]_vars

\* A linked task is sent to quality review only by a step that completes one
\* of its runs, with every step of that run ended.
ReviewNeedsCompletedRun ==
    [][task' = "quality_review" /\ task # "quality_review" =>
         \E r \in Runs :
             /\ run[r].linked
             /\ run[r].status = "running"
             /\ run'[r].status \in {"completed", "completed_with_errors"}
             /\ \A i \in Steps : run'[r].steps[i] \in {"completed", "failed"}]_vars

---------------------------------------------------------------------------
(* What holds as long as no event slips in between import and spawn *)

\* The steps of a running run: ended ones, then the current one, then pending
\* ones; and a step that failed lets the run go on only under `continue`.
StepsInOrder ==
    \A r \in Runs : run[r].status = "running" =>
        LET row == run[r]
        IN  /\ \A i \in Steps : i < row.cur =>
                  \/ row.steps[i] = "completed"
                  \/ row.steps[i] = "failed" /\ row.policy[i] = "continue"
            /\ row.steps[row.cur] \in {"running", "failed"}
            /\ \A i \in Steps : i > row.cur => row.steps[i] = "pending"

\* The final status tells the truth about the steps.
OutcomeMatchesSteps ==
    \A r \in Runs :
        LET row == run[r]
            stopped(i) == row.steps[i] = "failed" /\ row.policy[i] = "stop"
        IN  /\ row.status = "completed" =>
                  \A i \in Steps : row.steps[i] = "completed"
            /\ row.status = "completed_with_errors" =>
                  /\ \A i \in Steps : row.steps[i] \in {"completed", "failed"} /\ ~stopped(i)
                  /\ \E i \in Steps : row.steps[i] = "failed"
            /\ row.status = "failed" =>
                  \E i \in Steps : stopped(i) /\ \A j \in Steps : j > i => row.steps[j] = "skipped"
            /\ row.status = "cancelled" =>
                  \A i \in Steps : row.steps[i] \notin {"pending", "running"}

\* Cancelling reaches the process of every step it skips, as long as the
\* server that spawned it is up.
CancelReachesProcesses ==
    \A k \in children :
        /\ run[k.run].status = "cancelled"
        /\ run[k.run].steps[k.step] = "skipped"
        /\ k.watched /\ k.hasPid
        => k.killed

\* An unattended run finishes by itself: with auto_advance every run reaches
\* its end or is deleted, unless the server crashes, a template is deleted or
\* the spawn of a step fails.
AutoRunFinishes ==
    \A r \in Runs : run[r].status = "running" /\ run[r].auto ~>
        \/ run[r].status \in Terminal \cup {"deleted"}
        \/ crashes > 0 \/ templates # Steps
        \/ run[r].steps[run[r].cur] = "failed"

---------------------------------------------------------------------------
(* The promise *)

\* A run whose current step has failed is stuck: advanceRun refuses it, and no
\* process is left that could end.
Phase(row) ==
    CASE row.status = "absent" -> "none"
      [] row.status = "running" /\ row.steps[row.cur] = "failed" -> "stuck"
      [] OTHER -> row.status

Tolerant(row) == {i \in Steps : row.policy[i] = "continue"}
Outcome(row) ==
    [i \in Steps |-> IF row.steps[i] \in {"completed", "failed"} THEN row.steps[i] ELSE "open"]

Promised == INSTANCE StepwiseRuns WITH
    Length   <- StepCount,
    phase    <- [r \in Runs |-> Phase(run[r])],
    tolerant <- [r \in Runs |-> Tolerant(run[r])],
    outcome  <- [r \in Runs |-> Outcome(run[r])]

\* Exits, requests and spawns together keep what StepwiseRuns promises, as long
\* as no event slips in between import and spawn: each step ends once and in its
\* turn, a failure stops the run unless on_failure tolerates it, and the final
\* status is what the steps made of it.
ImplementsStepwiseRuns == Promised!Spec

---------------------------------------------------------------------------
(* What the documentation says and the code does not do *)

\* route.ts: "Apply on_failure policy so the run doesn't get stuck": an
\* auto-advancing run whose templates exist always has its current step in
\* progress.
NotStuckAfterSpawnFailure ==
    \A r \in Runs : run[r].status = "running" /\ run[r].auto =>
        run[r].steps[run[r].cur] = "running"
=============================================================================
