--------------------------- MODULE ProvisionJobs ---------------------------
(***************************************************************************)
(* Tenant provisioning: src/lib/super-admin.ts, the routes under           *)
(* src/app/api/super, src/lib/provisioner-client.ts and the root daemon    *)
(* ops/mc-provisioner-daemon.js.                                           *)
(*                                                                         *)
(* An admin queues a job for a tenant, another admin approves it, a third  *)
(* party runs it.  executeProvisionJob checks everything and marks the job *)
(* running before its first await, then sends the commands of the plan to  *)
(* the daemon one by one and settles job and tenant at the end.  Between   *)
(* two commands anything else may happen, other jobs of the same tenant    *)
(* included.                                                               *)
(***************************************************************************)
EXTENDS Naturals, FiniteSets

CONSTANTS
    Tenants,          \* tenants rows that may come to exist
    Jobs,             \* provision_jobs rows that may come to exist: ids, in their order
    Actors,           \* admins
    None,             \* approved_by IS NULL
    PlanLength,       \* number of steps of a built plan
    AllowExec,        \* MC_SUPER_PROVISION_EXEC = true
    DaemonMayDie,     \* may the daemon close a connection without an answer?
    WellFormedBodies, \* do the bodies of POST /api/super/provision-jobs fit the job?
    MaxRuns,          \* bound: executions started in a behaviour
    MaxCrashes        \* bound: crashes of the server in a behaviour

ASSUME ProvisionAssumption ==
    /\ None \notin Actors
    /\ PlanLength \in Nat \ {0}
    /\ AllowExec \in BOOLEAN
    /\ DaemonMayDie \in BOOLEAN
    /\ WellFormedBodies \in BOOLEAN
    /\ MaxRuns \in Nat
    /\ MaxCrashes \in Nat

VARIABLES
    tenant,    \* tenants.status
    job,       \* the provision_jobs table
    exec,      \* executions of executeProvisionJob in the server's memory
    daemon,    \* commands the daemon is working on
    applied,   \* steps of a job the daemon has carried out on the machine
    runs,      \* executions started so far; identifies an execution
    crashes

vars == <<tenant, job, exec, daemon, applied, runs, crashes>>

PlanSteps == 1..PlanLength
TenantStatus == {"absent", "pending", "provisioning", "decommissioning",
                 "active", "suspended", "error"}
JobStatus == {"absent", "queued", "approved", "running", "completed", "failed",
              "rejected", "cancelled"}
JobType == {"bootstrap", "update", "decommission"}

\* requestDry and complete are what request_json says: its dry_run, and
\* whether it carries the slug and port a bootstrap needs.  plan is the
\* length of plan_json.
Job == [status : JobStatus, tenant : Tenants, type : JobType, dry : BOOLEAN,
        requester : Actors, approver : Actors \cup {None},
        plan : 0..PlanLength, requestDry : BOOLEAN, complete : BOOLEAN]
NoJob == [status |-> "absent"]

\* before is previousTenantStatus, read when the execution started.
Exec == [runner : Actors, run : 1..MaxRuns, step : PlanSteps,
         before : TenantStatus, hung : BOOLEAN]
NoExec == [none |-> TRUE]

Command == [job : Jobs, run : 1..MaxRuns, step : PlanSteps]

TypeOK ==
    /\ tenant \in [Tenants -> TenantStatus]
    /\ job \in [Jobs -> Job \cup {NoJob}]
    /\ exec \in [Jobs -> Exec \cup {NoExec}]
    /\ daemon \subseteq Command
    /\ applied \in [Jobs -> SUBSET PlanSteps]
    /\ runs \in 0..MaxRuns
    /\ crashes \in 0..MaxCrashes

Init ==
    /\ tenant = [t \in Tenants |-> "absent"]
    /\ job = [j \in Jobs |-> NoJob]
    /\ exec = [j \in Jobs |-> NoExec]
    /\ daemon = {}
    /\ applied = [j \in Jobs |-> {}]
    /\ runs = 0
    /\ crashes = 0

---------------------------------------------------------------------------
(* Queueing jobs *)

\* The table gives ids in ascending order (AUTOINCREMENT).
Queue(j, t, type, dry, actor, plan, requestDry, complete) ==
    /\ job[j].status = "absent"
    /\ \A k \in Jobs : k < j => job[k].status # "absent"
    /\ job' = [job EXCEPT ![j] =
                 [status |-> "queued", tenant |-> t, type |-> type, dry |-> dry,
                  requester |-> actor, approver |-> None, plan |-> plan,
                  requestDry |-> requestDry, complete |-> complete]]
    /\ UNCHANGED <<exec, daemon, applied, runs, crashes>>

\* createTenantAndBootstrapJob: tenant and job in one transaction.
CreateTenantAndBootstrapJob(t, j, dry, actor) ==
    /\ tenant[t] = "absent"
    /\ tenant' = [tenant EXCEPT ![t] = "pending"]
    /\ Queue(j, t, "bootstrap", dry, actor, PlanLength, dry, TRUE)

\* createTenantDecommissionJob: the status of the tenant is not looked at.
CreateTenantDecommissionJob(t, j, dry, actor) ==
    /\ tenant[t] # "absent"
    /\ UNCHANGED tenant
    /\ Queue(j, t, "decommission", dry, actor, PlanLength, dry, TRUE)

\* POST /api/super/provision-jobs: plan and request come from the body.
QueueJob(t, j, type, dry, actor, plan, requestDry, complete) ==
    /\ tenant[t] # "absent"
    /\ WellFormedBodies => plan = PlanLength /\ requestDry = dry /\ complete
    /\ UNCHANGED tenant
    /\ Queue(j, t, type, dry, actor, plan, requestDry, complete)

---------------------------------------------------------------------------
(* transitionProvisionJobStatus *)

SetStatus(j, from, to) ==
    /\ job[j].status \in from
    /\ job' = [job EXCEPT ![j].status = to]
    /\ UNCHANGED <<tenant, exec, daemon, applied, runs, crashes>>

Approve(j, actor) ==
    /\ job[j].status \in {"queued", "rejected", "failed"}
    /\ job' = [job EXCEPT ![j].status = "approved", ![j].approver = actor]
    /\ UNCHANGED <<tenant, exec, daemon, applied, runs, crashes>>

Reject(j) == SetStatus(j, {"queued", "approved", "failed"}, "rejected")

\* (mutant) A running job can be cancelled under its execution.
CancelRunning(j) == SetStatus(j, {"queued", "approved", "running", "failed", "rejected"}, "cancelled")

Cancel(j) == SetStatus(j, {"queued", "approved", "failed", "rejected"}, "cancelled")

---------------------------------------------------------------------------
(* executeProvisionJob *)

Live(j) == ~job[j].dry

\* (mutant) The approver is compared with who runs the job only.
RunnableByAnother(j, actor) ==
    /\ job[j].status = "approved"
    /\ job[j].plan > 0
    /\ job[j].requestDry = job[j].dry
    /\ job[j].approver # None
    /\ Live(j) => job[j].approver # actor
    /\ job[j].type = "bootstrap" => job[j].complete

\* The checks made before anything is written.
Runnable(j, actor) ==
    /\ job[j].status = "approved"
    /\ job[j].plan > 0
    /\ job[j].requestDry = job[j].dry
    /\ job[j].approver # None
    /\ Live(j) => job[j].approver \notin {job[j].requester, actor}
    /\ job[j].type = "bootstrap" => job[j].complete

StartedStatus(j) ==
    IF job[j].dry THEN tenant[job[j].tenant]
    ELSE IF job[j].type = "decommission" THEN "decommissioning"
    ELSE "provisioning"

CompletedStatus(j) ==
    IF job[j].type # "decommission" THEN "active"
    ELSE IF job[j].dry THEN exec[j].before
    ELSE "suspended"

\* Job and tenant are settled together, whatever else happened to the tenant.
Settle(j, jobStatus, tenantStatus) ==
    /\ job' = [job EXCEPT ![j].status = jobStatus]
    /\ tenant' = [tenant EXCEPT ![job[j].tenant] = tenantStatus]
    /\ exec' = [exec EXCEPT ![j] = NoExec]

\* The run is stopped at once, by the error of the first step, when live
\* execution is disabled on this host.
ExecuteProvisionJob(j, actor) ==
    /\ runs < MaxRuns
    /\ Runnable(j, actor)
    /\ runs' = runs + 1
    /\ IF Live(j) /\ ~AllowExec
       THEN Settle(j, "failed", "error") /\ UNCHANGED daemon
       ELSE /\ job' = [job EXCEPT ![j].status = "running"]
            /\ tenant' = [tenant EXCEPT ![job[j].tenant] = StartedStatus(j)]
            /\ exec' = [exec EXCEPT ![j] =
                          [runner |-> actor, run |-> runs + 1, step |-> 1,
                           before |-> tenant[job[j].tenant], hung |-> FALSE]]
            /\ daemon' = daemon \cup {[job |-> j, run |-> runs + 1, step |-> 1]}
    /\ UNCHANGED <<applied, crashes>>

\* The execution that is still waiting for the answer to a command.
Awaits(c) ==
    /\ exec[c.job] # NoExec
    /\ exec[c.job].run = c.run
    /\ exec[c.job].step = c.step
    /\ ~exec[c.job].hung

Fail(j) == Settle(j, "failed", "error")

\* (mutant) One step more than the plan has.
StepDoneLate(c) ==
    IF c.step <= job[c.job].plan
    THEN /\ exec' = [exec EXCEPT ![c.job].step = @ + 1]
         /\ daemon' = (daemon \ {c}) \cup {[c EXCEPT !.step = @ + 1]}
         /\ UNCHANGED <<job, tenant>>
    ELSE /\ Settle(c.job, "completed", CompletedStatus(c.job))
         /\ daemon' = daemon \ {c}

\* The loop goes on with the next step, or the job is complete.
StepDone(c) ==
    IF c.step < job[c.job].plan
    THEN /\ exec' = [exec EXCEPT ![c.job].step = @ + 1]
         /\ daemon' = (daemon \ {c}) \cup {[c EXCEPT !.step = @ + 1]}
         /\ UNCHANGED <<job, tenant>>
    ELSE /\ Settle(c.job, "completed", CompletedStatus(c.job))
         /\ daemon' = daemon \ {c}

\* The daemon carries out a command (a dry run only pretends to) and answers.
\* The answer of a command nobody waits for any more goes nowhere.
DaemonSucceeds(c) ==
    /\ c \in daemon
    /\ applied' = IF Live(c.job) THEN [applied EXCEPT ![c.job] = @ \cup {c.step}] ELSE applied
    /\ IF Awaits(c) THEN StepDone(c)
                    ELSE daemon' = daemon \ {c} /\ UNCHANGED <<job, tenant, exec>>
    /\ UNCHANGED <<runs, crashes>>

\* The command is refused or fails (of a dry run: an allowlist refusal).
DaemonFails(c) ==
    /\ c \in daemon
    /\ daemon' = daemon \ {c}
    /\ IF Awaits(c) THEN Fail(c.job) ELSE UNCHANGED <<job, tenant, exec>>
    /\ UNCHANGED <<applied, runs, crashes>>

\* (mutant) Only the first command of an execution has a timeout.
ClientTimeoutOnce(j) ==
    /\ exec[j] # NoExec
    /\ ~exec[j].hung
    /\ exec[j].step = 1
    /\ Fail(j)
    /\ UNCHANGED <<daemon, applied, runs, crashes>>

\* callProvisioner gives up after timeoutMs + 2 s; the daemon, which may retry
\* useradd six times, keeps working on the command.
ClientTimeout(j) ==
    /\ exec[j] # NoExec
    /\ ~exec[j].hung
    /\ Fail(j)
    /\ UNCHANGED <<daemon, applied, runs, crashes>>

\* The connection is closed before any data: the close handler clears the
\* timeout and settles nothing, the execution waits for ever.  Whether the
\* command took effect is open.
DaemonDies(c) ==
    /\ DaemonMayDie
    /\ c \in daemon
    /\ daemon' = daemon \ {c}
    /\ \/ UNCHANGED applied
       \/ Live(c.job) /\ applied' = [applied EXCEPT ![c.job] = @ \cup {c.step}]
    /\ exec' = IF Awaits(c) THEN [exec EXCEPT ![c.job].hung = TRUE] ELSE exec
    /\ UNCHANGED <<tenant, job, runs, crashes>>

\* The server dies: the executions are gone, their jobs stay running.
Crash ==
    /\ crashes < MaxCrashes
    /\ crashes' = crashes + 1
    /\ exec' = [j \in Jobs |-> NoExec]
    /\ UNCHANGED <<tenant, job, daemon, applied, runs>>

---------------------------------------------------------------------------
Next ==
    \/ \E t \in Tenants, j \in Jobs, actor \in Actors, dry \in BOOLEAN :
         \/ CreateTenantAndBootstrapJob(t, j, dry, actor)
         \/ CreateTenantDecommissionJob(t, j, dry, actor)
         \/ \E type \in JobType, plan \in {0, PlanLength}, requestDry, complete \in BOOLEAN :
              QueueJob(t, j, type, dry, actor, plan, requestDry, complete)
    \/ \E j \in Jobs :
         \/ \E actor \in Actors : Approve(j, actor) \/ ExecuteProvisionJob(j, actor)
         \/ Reject(j)
         \/ Cancel(j)
         \/ ClientTimeout(j)
    \/ \E c \in daemon : DaemonSucceeds(c) \/ DaemonFails(c) \/ DaemonDies(c)
    \/ Crash

Spec == Init /\ [][Next]_vars

\* A pending client timeout fires; nothing else is owed by anyone.
FairSpec == Spec /\ \A j \in Jobs : WF_vars(ClientTimeout(j))

---------------------------------------------------------------------------
(* Properties *)

\* Two-person rule: a live job that runs or has completed was approved by
\* somebody other than its requester, and is not run by its approver.
TwoPersonRule ==
    \A j \in Jobs : job[j].status \in {"running", "completed"} /\ Live(j) =>
        /\ job[j].approver \notin {None, job[j].requester}
        /\ exec[j] # NoExec => exec[j].runner # job[j].approver

\* A live command is on the machine only after every step before it has been
\* carried out, even when its execution has timed out, crashed or was retried.
NoStepSkipped ==
    \A c \in daemon : Live(c.job) => 1..(c.step - 1) \subseteq applied[c.job]

\* A live job is reported completed only when its whole plan was carried out.
CompletedMeansApplied ==
    \A j \in Jobs : job[j].status = "completed" /\ Live(j) =>
        applied[j] = 1..job[j].plan

\* A dry run never touches the machine.
DryRunsChangeNothing ==
    \A j \in Jobs : job[j].status # "absent" /\ job[j].dry => applied[j] = {}

\* Completed and cancelled are for ever, what was requested never changes, and
\* a running job is left alone by approvals, rejections and cancellations: it
\* ends as its execution ends.
JobHistory ==
    [][\A j \in Jobs : job[j].status # "absent" =>
         /\ [job'[j] EXCEPT !.status = "", !.approver = ""] =
            [job[j] EXCEPT !.status = "", !.approver = ""]
         /\ job[j].status \in {"completed", "cancelled"} => job'[j] = job[j]
         /\ job[j].status = "running" =>
              \/ job'[j] = job[j]
              \/ /\ job'[j].status \in {"completed", "failed"}
                 /\ exec[j] # NoExec /\ exec'[j] = NoExec]_vars

---------------------------------------------------------------------------
(* The promise *)

\* A started job whose execution is gone or waits for an answer that will not
\* come is stranded; the jobs an admin may still decide about are open.
Phase(j) ==
    CASE job[j].status = "absent" -> "none"
      [] job[j].status \in {"completed", "cancelled"} -> job[j].status
      [] job[j].status = "running" ->
           IF exec[j] # NoExec /\ ~exec[j].hung THEN "running" ELSE "stranded"
      [] OTHER -> "open"

Requested(j) == job[j].status # "absent"
Length(j) == IF Requested(j) /\ Live(j) THEN job[j].plan ELSE 0
Consent(j) == Requested(j) /\ job[j].approver \notin {None, job[j].requester}
Asked(j) == {s \in 1..Length(j) : \E c \in daemon : c.job = j /\ c.step = s}
Progress(j) == CHOOSE n \in 0..PlanLength : applied[j] = 1..n

Promised == INSTANCE ApprovedChanges WITH
    Changes  <- Jobs,
    phase    <- [j \in Jobs |-> Phase(j)],
    length   <- [j \in Jobs |-> Length(j)],
    consent  <- [j \in Jobs |-> Consent(j)],
    asked    <- [j \in Jobs |-> Asked(j)],
    progress <- [j \in Jobs |-> Progress(j)]

\* Requests, decisions, executions and late answers together keep what
\* ApprovedChanges promises: no live job starts without a second person, the
\* plan advances on the machine step by step across attempts, and only a plan
\* carried out to its end is reported completed.
ImplementsApprovedChanges == Promised!Spec

\* Unless the server crashes or the daemon drops its connection, a job that was
\* started ends.
StartedJobEnds ==
    \A j \in Jobs : job[j].status = "running" ~>
        \/ job[j].status # "running"
        \/ crashes > 0
        \/ exec[j] # NoExec /\ exec[j].hung

\* super-admin.ts: the tenant is marked active when a bootstrap completes, "so
\* workspace lifecycle is not stuck in pending".
CompletedBootstrapLeavesPending ==
    \A j \in Jobs : job[j].status = "completed" /\ job[j].type # "decommission" =>
        tenant[job[j].tenant] # "pending"
=============================================================================
