------------------------ MODULE ProvisionJobsProofs ------------------------
(***************************************************************************)
(* Proofs about ProvisionJobs, for every set of tenants, jobs and admins,  *)
(* every plan length and every bound.                                      *)
(*                                                                         *)
(* None of the properties is inductive on its own: what a command or an    *)
(* execution may do next depends on the row of its job.  IInv adds the     *)
(* facts that tie them together.                                           *)
(***************************************************************************)
EXTENDS ProvisionJobs, TLAPS

\* An execution belongs to a running job and is inside its plan.
ExecOwnsJob ==
    \A j \in Jobs : exec[j] # NoExec =>
        /\ job[j].status = "running"
        /\ exec[j].step <= job[j].plan

\* The steps before the current one of a live execution are on the machine.
ExecProgress ==
    \A j \in Jobs : exec[j] # NoExec /\ Live(j) =>
        1..(exec[j].step - 1) \subseteq applied[j]

\* A command belongs to the plan of a job.
CommandsPlanned ==
    \A c \in daemon : job[c.job].status # "absent" /\ c.step <= job[c.job].plan

\* Only the steps of live jobs reach the machine.
AppliedPlanned ==
    \A j \in Jobs : \A s \in applied[j] :
        job[j].status # "absent" /\ Live(j) /\ s <= job[j].plan

IInv ==
    /\ TypeOK
    /\ ExecOwnsJob
    /\ ExecProgress
    /\ CommandsPlanned
    /\ AppliedPlanned
    /\ TwoPersonRule
    /\ NoStepSkipped
    /\ CompletedMeansApplied

---------------------------------------------------------------------------
\* NoJob and NoExec are told apart from the rows by their fields.
LEMMA Rows ==
    ASSUME TypeOK
    PROVE  /\ \A j \in Jobs : job[j].status # "absent" => job[j] \in Job
           /\ \A j \in Jobs : exec[j] # NoExec => exec[j] \in Exec
           /\ \A j \in Jobs : job[j].status \in JobStatus
  BY DEF TypeOK, NoJob, Job, JobStatus

\* A step that leaves jobs, executions, commands and machine alone.
LEMMA Untouched ==
    ASSUME IInv, TypeOK', UNCHANGED <<job, exec, daemon, applied>>
    PROVE  IInv'
  BY DEF IInv, ExecOwnsJob, ExecProgress, CommandsPlanned, AppliedPlanned, Live,
         TwoPersonRule, NoStepSkipped, CompletedMeansApplied

\* Queueing a job only fills a row that nothing refers to yet.
LEMMA QueueSafe ==
    ASSUME IInv, NEW j \in Jobs, NEW t \in Tenants, NEW type \in JobType, NEW dry \in BOOLEAN,
           NEW actor \in Actors, NEW plan \in 0..PlanLength,
           NEW requestDry \in BOOLEAN, NEW complete \in BOOLEAN,
           tenant' \in [Tenants -> TenantStatus],
           Queue(j, t, type, dry, actor, plan, requestDry, complete)
    PROVE  IInv'
<1> USE ProvisionAssumption
<1> DEFINE row == [status |-> "queued", tenant |-> t, type |-> type, dry |-> dry,
                   requester |-> actor, approver |-> None, plan |-> plan,
                   requestDry |-> requestDry, complete |-> complete]
<1>1. row \in Job /\ row.status = "queued"
  BY DEF Job, JobStatus
<1>2. job[j].status = "absent" /\ job' = [job EXCEPT ![j] = row]
  BY DEF Queue
<1> HIDE DEF row
<1>3. UNCHANGED <<exec, daemon, applied, runs, crashes>>
  BY DEF Queue
<1>4. TypeOK'
  BY <1>1, <1>2, <1>3 DEF IInv, TypeOK
<1>5. \A k \in Jobs : k # j => job'[k] = job[k]
  BY <1>2 DEF IInv, TypeOK
<1>6. job'[j].status = "queued"
  BY <1>1, <1>2 DEF IInv, TypeOK
<1>7. exec[j] = NoExec /\ applied[j] = {} /\ \A c \in daemon : c.job # j
  BY <1>2 DEF IInv, ExecOwnsJob, CommandsPlanned, AppliedPlanned
<1>8. \A c \in daemon : c.job \in Jobs
  BY DEF IInv, TypeOK, Command
<1>9. ExecOwnsJob' /\ ExecProgress'
  BY <1>3, <1>5, <1>7 DEF IInv, ExecOwnsJob, ExecProgress, Live
<1>10. CommandsPlanned' /\ NoStepSkipped'
  BY <1>3, <1>5, <1>7, <1>8 DEF IInv, CommandsPlanned, NoStepSkipped, Live
<1>11. AppliedPlanned'
  BY <1>3, <1>5, <1>7 DEF IInv, AppliedPlanned, Live
<1>12. TwoPersonRule' /\ CompletedMeansApplied'
  BY <1>3, <1>5, <1>6 DEF IInv, TwoPersonRule, CompletedMeansApplied, Live
<1> QED
  BY <1>4, <1>9, <1>10, <1>11, <1>12 DEF IInv

\* A new status and approver for a job that neither runs nor is completed.
LEMMA DecisionSafe ==
    ASSUME IInv, NEW j \in Jobs, NEW status \in JobStatus, NEW approver \in Actors \cup {None},
           job[j].status \notin {"absent", "running", "completed"},
           status \notin {"absent", "running", "completed"},
           job' = [job EXCEPT ![j].status = status, ![j].approver = approver],
           UNCHANGED <<tenant, exec, daemon, applied, runs, crashes>>
    PROVE  IInv'
<1>1. job[j] \in Job
  BY Rows DEF IInv
<1> DEFINE row == [job[j] EXCEPT !.status = status, !.approver = approver]
<1>2. /\ row \in Job
      /\ row.status = status /\ row.dry = job[j].dry /\ row.plan = job[j].plan
  BY <1>1 DEF Job
<1>3. job' = [job EXCEPT ![j] = row]
  OBVIOUS
<1> HIDE DEF row
<1>4. TypeOK'
  BY <1>2, <1>3 DEF IInv, TypeOK
<1>5. \A k \in Jobs : k # j => job'[k] = job[k]
  BY <1>3 DEF IInv, TypeOK
<1>6. job'[j] = row
  BY <1>3 DEF IInv, TypeOK
<1>7. \A k \in Jobs : job'[k].dry = job[k].dry /\ job'[k].plan = job[k].plan
  BY <1>2, <1>5, <1>6
<1>8. exec[j] = NoExec
  BY DEF IInv, ExecOwnsJob
<1>9. \A c \in daemon : c.job \in Jobs
  BY DEF IInv, TypeOK, Command
<1>10. ExecOwnsJob' /\ ExecProgress'
  BY <1>5, <1>8 DEF IInv, ExecOwnsJob, ExecProgress, Live
<1>11. \A k \in Jobs : job'[k].status = "absent" => job[k].status = "absent"
  BY <1>2, <1>5, <1>6
<1>12. CommandsPlanned' /\ NoStepSkipped'
  BY <1>7, <1>9, <1>11 DEF IInv, CommandsPlanned, NoStepSkipped, Live
<1>13. AppliedPlanned'
  BY <1>7, <1>11 DEF IInv, AppliedPlanned, Live
<1>14. TwoPersonRule' /\ CompletedMeansApplied'
  BY <1>2, <1>5, <1>6 DEF IInv, TwoPersonRule, CompletedMeansApplied, Live
<1> QED
  BY <1>4, <1>10, <1>12, <1>13, <1>14 DEF IInv

\* What a new status of a job leaves as it was.
LEMMA StatusOnly ==
    ASSUME TypeOK, NEW j \in Jobs, NEW status \in JobStatus \ {"absent"},
           job[j].status # "absent", job' = [job EXCEPT ![j].status = status]
    PROVE  /\ job' \in [Jobs -> Job \cup {NoJob}]
           /\ job'[j].status = status
           /\ \A k \in Jobs : k # j => job'[k] = job[k]
           /\ \A k \in Jobs : /\ job'[k].dry = job[k].dry
                              /\ job'[k].plan = job[k].plan
                              /\ job'[k].approver = job[k].approver
                              /\ job'[k].requester = job[k].requester
                              /\ job'[k].status = "absent" <=> job[k].status = "absent"
<1>1. job[j] \in Job
  BY Rows
<1> DEFINE row == [job[j] EXCEPT !.status = status]
<1>2. /\ row \in Job
      /\ row.status = status /\ row.dry = job[j].dry /\ row.plan = job[j].plan
      /\ row.approver = job[j].approver /\ row.requester = job[j].requester
  BY <1>1 DEF Job
<1>3. job' = [job EXCEPT ![j] = row]
  OBVIOUS
<1> HIDE DEF row
<1>4. /\ job' \in [Jobs -> Job \cup {NoJob}]
      /\ job'[j] = row
      /\ \A k \in Jobs : k # j => job'[k] = job[k]
  BY <1>2, <1>3 DEF TypeOK
<1> QED
  BY <1>2, <1>4

\* The end of an execution that did not reach the end of its plan.
LEMMA FailSafe ==
    ASSUME IInv, NEW j \in Jobs, job[j].status # "absent", job[j].tenant \in Tenants,
           Fail(j), daemon' \subseteq daemon,
           runs' \in 0..MaxRuns, UNCHANGED <<applied, crashes>>
    PROVE  IInv'
<1>1. "failed" \in JobStatus \ {"absent"} /\ "error" \in TenantStatus
  BY DEF JobStatus, TenantStatus
<1>2. /\ job' = [job EXCEPT ![j].status = "failed"]
      /\ tenant' = [tenant EXCEPT ![job[j].tenant] = "error"]
      /\ exec' = [exec EXCEPT ![j] = NoExec]
  BY DEF Fail, Settle
<1>3. /\ job' \in [Jobs -> Job \cup {NoJob}]
      /\ job'[j].status = "failed"
      /\ \A k \in Jobs : k # j => job'[k] = job[k]
      /\ \A k \in Jobs : /\ job'[k].dry = job[k].dry
                         /\ job'[k].plan = job[k].plan
                         /\ job'[k].approver = job[k].approver
                         /\ job'[k].requester = job[k].requester
                         /\ job'[k].status = "absent" <=> job[k].status = "absent"
  BY <1>1, <1>2, StatusOnly DEF IInv
<1>4. /\ exec' \in [Jobs -> Exec \cup {NoExec}]
      /\ exec'[j] = NoExec
      /\ \A k \in Jobs : k # j => exec'[k] = exec[k]
  BY <1>2 DEF IInv, TypeOK
<1>5. \A c \in daemon' : c \in daemon /\ c.job \in Jobs
  BY DEF IInv, TypeOK, Command
<1>6. TypeOK'
  BY <1>1, <1>2, <1>3, <1>4, <1>5 DEF IInv, TypeOK
<1>7. ExecOwnsJob' /\ ExecProgress'
  BY <1>3, <1>4 DEF IInv, ExecOwnsJob, ExecProgress, Live
<1>8. CommandsPlanned' /\ NoStepSkipped'
  BY <1>3, <1>5 DEF IInv, CommandsPlanned, NoStepSkipped, Live
<1>9. AppliedPlanned'
  BY <1>3 DEF IInv, AppliedPlanned, Live
<1>10. TwoPersonRule' /\ CompletedMeansApplied'
  BY <1>3, <1>4 DEF IInv, TwoPersonRule, CompletedMeansApplied, Live
<1> QED
  BY <1>6, <1>7, <1>8, <1>9, <1>10 DEF IInv

---------------------------------------------------------------------------
\* Starting an execution: the checks of executeProvisionJob establish what the
\* running job, its execution and its first command have to satisfy.
LEMMA ExecuteSafe ==
    ASSUME IInv, NEW j \in Jobs, NEW actor \in Actors, ExecuteProvisionJob(j, actor)
    PROVE  IInv'
<1> USE ProvisionAssumption
<1>1. /\ runs < MaxRuns /\ runs' = runs + 1 /\ runs + 1 \in 1..MaxRuns
      /\ job[j].status = "approved" /\ job[j].plan > 0
      /\ job[j].approver # None
      /\ Live(j) => job[j].approver \notin {job[j].requester, actor}
      /\ UNCHANGED <<applied, crashes>>
  BY DEF ExecuteProvisionJob, Runnable, IInv, TypeOK
<1>2. job[j] \in Job /\ exec[j] = NoExec
  BY <1>1, Rows DEF IInv, ExecOwnsJob
<1>3. job[j].tenant \in Tenants /\ job[j].plan \in 0..PlanLength
      /\ job[j].approver \in Actors \cup {None}
  BY <1>2 DEF Job
<1>4. CASE Live(j) /\ ~AllowExec
  <2>1. Fail(j) /\ UNCHANGED daemon
    BY <1>4 DEF ExecuteProvisionJob, Fail
  <2> QED
    BY <1>1, <1>3, <2>1, FailSafe
<1>5. CASE ~(Live(j) /\ ~AllowExec)
  <2> DEFINE new == [runner |-> actor, run |-> runs + 1, step |-> 1,
                     before |-> tenant[job[j].tenant], hung |-> FALSE]
             cmd == [job |-> j, run |-> runs + 1, step |-> 1]
  <2>1. /\ job' = [job EXCEPT ![j].status = "running"]
        /\ tenant' = [tenant EXCEPT ![job[j].tenant] = StartedStatus(j)]
        /\ exec' = [exec EXCEPT ![j] = new]
        /\ daemon' = daemon \cup {cmd}
    BY <1>5 DEF ExecuteProvisionJob
  <2>2. /\ new \in Exec /\ new.step = 1 /\ new.runner = actor
        /\ cmd \in Command /\ cmd.step = 1 /\ cmd.job = j
    BY <1>1, <1>3 DEF Exec, Command, PlanSteps, IInv, TypeOK
  <2>3. StartedStatus(j) \in TenantStatus
    BY <1>3 DEF StartedStatus, TenantStatus, IInv, TypeOK
  <2> HIDE DEF new, cmd
  <2>4. "running" \in JobStatus \ {"absent"}
    BY DEF JobStatus
  <2>5. /\ job' \in [Jobs -> Job \cup {NoJob}]
        /\ job'[j].status = "running"
        /\ \A k \in Jobs : k # j => job'[k] = job[k]
        /\ \A k \in Jobs : /\ job'[k].dry = job[k].dry
                           /\ job'[k].plan = job[k].plan
                           /\ job'[k].approver = job[k].approver
                           /\ job'[k].requester = job[k].requester
                           /\ job'[k].status = "absent" <=> job[k].status = "absent"
    BY <1>1, <2>1, <2>4, StatusOnly DEF IInv
  <2>6. /\ exec' \in [Jobs -> Exec \cup {NoExec}]
        /\ exec'[j] = new
        /\ \A k \in Jobs : k # j => exec'[k] = exec[k]
    BY <2>1, <2>2 DEF IInv, TypeOK
  <2>7. TypeOK'
    <3>1. daemon' \subseteq Command
      BY <2>1, <2>2 DEF IInv, TypeOK
    <3>2. tenant' \in [Tenants -> TenantStatus]
      BY <2>1, <2>3 DEF IInv, TypeOK
    <3>3. runs' \in 0..MaxRuns
      BY <1>1
    <3> QED
      BY <1>1, <2>5, <2>6, <3>1, <3>2, <3>3 DEF IInv, TypeOK
  <2>8. ExecOwnsJob' /\ ExecProgress'
    <3>1. 1 <= job'[j].plan /\ 1..(1 - 1) = {}
      BY <1>1, <1>3, <2>5
    <3> QED
      BY <1>1, <2>2, <2>5, <2>6, <3>1 DEF IInv, ExecOwnsJob, ExecProgress, Live
  <2>9. CommandsPlanned' /\ NoStepSkipped'
    <3>1. \A c \in daemon' : c = cmd \/ (c \in daemon /\ c.job \in Jobs)
      BY <2>1 DEF IInv, TypeOK, Command
    <3>2. 1 <= job'[j].plan /\ 1..(1 - 1) = {}
      BY <1>1, <1>3, <2>5
    <3> QED
      BY <1>1, <2>2, <2>5, <3>1, <3>2 DEF IInv, CommandsPlanned, NoStepSkipped, Live
  <2>10. AppliedPlanned'
    BY <1>1, <2>5 DEF IInv, AppliedPlanned, Live
  <2>11. TwoPersonRule'
    BY <1>1, <2>2, <2>5, <2>6 DEF IInv, TwoPersonRule, Live
  <2>12. CompletedMeansApplied'
    BY <1>1, <2>5 DEF IInv, CompletedMeansApplied, Live
  <2> QED
    BY <2>7, <2>8, <2>9, <2>10, <2>11, <2>12 DEF IInv
<1> QED
  BY <1>4, <1>5

---------------------------------------------------------------------------
\* What is known of a command the daemon is working on.
LEMMA CommandFacts ==
    ASSUME IInv, NEW c \in daemon
    PROVE  /\ c \in Command /\ c.job \in Jobs /\ c.step \in PlanSteps
           /\ job[c.job] \in Job /\ job[c.job].tenant \in Tenants
           /\ job[c.job].plan \in 0..PlanLength
           /\ c.step <= job[c.job].plan
           /\ Live(c.job) => 1..(c.step - 1) \subseteq applied[c.job]
<1>1. c \in Command /\ c.job \in Jobs /\ c.step \in PlanSteps
  BY DEF IInv, TypeOK, Command
<1>2. job[c.job] \in Job
  BY <1>1, Rows DEF IInv, CommandsPlanned
<1> QED
  BY <1>1, <1>2 DEF IInv, CommandsPlanned, NoStepSkipped, Job

\* A step more on the machine, of a command in flight, disturbs nothing.
LEMMA AppliedGrows ==
    ASSUME IInv, NEW c \in daemon, Live(c.job),
           applied' = [applied EXCEPT ![c.job] = @ \cup {c.step}]
    PROVE  /\ applied' \in [Jobs -> SUBSET PlanSteps]
           /\ c.step \in applied'[c.job]
           /\ \A j \in Jobs : applied[j] \subseteq applied'[j]
           /\ \A j \in Jobs : \A s \in applied'[j] :
                job[j].status # "absent" /\ Live(j) /\ s <= job[j].plan
<1>1. /\ c.job \in Jobs /\ c.step \in PlanSteps
      /\ job[c.job].status # "absent" /\ c.step <= job[c.job].plan
  BY CommandFacts DEF IInv, CommandsPlanned
<1>2. /\ applied' \in [Jobs -> SUBSET PlanSteps]
      /\ applied'[c.job] = applied[c.job] \cup {c.step}
      /\ \A j \in Jobs : j # c.job => applied'[j] = applied[j]
  BY <1>1 DEF IInv, TypeOK
<1> QED
  BY <1>1, <1>2 DEF IInv, AppliedPlanned

\* A completed live job has its whole plan on the machine, and keeps it.
LEMMA CompletedKeeps ==
    ASSUME IInv, applied' \in [Jobs -> SUBSET PlanSteps],
           \A j \in Jobs : applied[j] \subseteq applied'[j],
           \A j \in Jobs : \A s \in applied'[j] : s <= job[j].plan,
           NEW j \in Jobs, job[j].status = "completed", Live(j)
    PROVE  applied'[j] = 1..job[j].plan
<1>1. job[j] \in Job
  BY Rows DEF IInv
<1>2. job[j].plan \in Nat /\ applied[j] = 1..job[j].plan
  BY <1>1, ProvisionAssumption DEF Job, IInv, CompletedMeansApplied
<1>3. applied'[j] \subseteq 1..job[j].plan
  BY <1>2, ProvisionAssumption DEF PlanSteps
<1> QED
  BY <1>2, <1>3

\* A command leaves the daemon and nobody is told: it was carried out or not.
LEMMA UnheardSafe ==
    ASSUME IInv, NEW c \in daemon, daemon' = daemon \ {c},
           \/ UNCHANGED applied
           \/ Live(c.job) /\ applied' = [applied EXCEPT ![c.job] = @ \cup {c.step}],
           exec' \in [Jobs -> Exec \cup {NoExec}],
           \A j \in Jobs : exec'[j] # NoExec =>
               /\ exec[j] # NoExec
               /\ exec'[j].step = exec[j].step /\ exec'[j].runner = exec[j].runner,
           UNCHANGED <<tenant, job, runs, crashes>>
    PROVE  IInv'
<1>1. /\ applied' \in [Jobs -> SUBSET PlanSteps]
      /\ \A j \in Jobs : applied[j] \subseteq applied'[j]
      /\ \A j \in Jobs : \A s \in applied'[j] :
           job[j].status # "absent" /\ Live(j) /\ s <= job[j].plan
  <2>1. CASE UNCHANGED applied
    BY <2>1 DEF IInv, TypeOK, AppliedPlanned
  <2>2. CASE Live(c.job) /\ applied' = [applied EXCEPT ![c.job] = @ \cup {c.step}]
    BY <2>2, AppliedGrows
  <2> QED
    BY <2>1, <2>2
<1>2. TypeOK'
  BY <1>1 DEF IInv, TypeOK
<1>3. ExecOwnsJob' /\ TwoPersonRule'
  BY DEF IInv, ExecOwnsJob, TwoPersonRule, Live
<1>4. ExecProgress'
  BY <1>1 DEF IInv, ExecProgress, Live
<1>5. CommandsPlanned' /\ NoStepSkipped'
  <2>1. \A d \in daemon' : d \in daemon /\ d.job \in Jobs
    BY DEF IInv, TypeOK, Command
  <2> QED
    BY <1>1, <2>1 DEF IInv, CommandsPlanned, NoStepSkipped, Live
<1>6. AppliedPlanned'
  BY <1>1 DEF AppliedPlanned, Live
<1>7. CompletedMeansApplied'
  BY <1>1, CompletedKeeps DEF CompletedMeansApplied, Live
<1> QED
  BY <1>2, <1>3, <1>4, <1>5, <1>6, <1>7 DEF IInv

\* What a step that was carried out adds to the machine.
LEMMA Carried ==
    ASSUME IInv, NEW c \in daemon,
           applied' = IF Live(c.job) THEN [applied EXCEPT ![c.job] = @ \cup {c.step}]
                      ELSE applied
    PROVE  /\ applied' \in [Jobs -> SUBSET PlanSteps]
           /\ \A j \in Jobs : applied[j] \subseteq applied'[j]
           /\ \A j \in Jobs : \A s \in applied'[j] :
                job[j].status # "absent" /\ Live(j) /\ s <= job[j].plan
           /\ Live(c.job) => 1..c.step \subseteq applied'[c.job]
<1>1. CASE Live(c.job)
  <2>1. /\ applied' \in [Jobs -> SUBSET PlanSteps]
        /\ c.step \in applied'[c.job]
        /\ \A j \in Jobs : applied[j] \subseteq applied'[j]
        /\ \A j \in Jobs : \A s \in applied'[j] :
             job[j].status # "absent" /\ Live(j) /\ s <= job[j].plan
    BY <1>1, AppliedGrows
  <2>2. c.job \in Jobs /\ c.step \in Nat /\ 1..(c.step - 1) \subseteq applied[c.job]
    BY <1>1, CommandFacts, ProvisionAssumption DEF PlanSteps
  <2>3. 1..c.step \subseteq (1..(c.step - 1)) \cup {c.step}
    BY <2>2
  <2> QED
    BY <2>1, <2>2, <2>3
<1>2. CASE ~Live(c.job)
  BY <1>2 DEF IInv, TypeOK, AppliedPlanned
<1> QED
  BY <1>1, <1>2

\* The next command follows a step that was carried out.
LEMMA NextStepSafe ==
    ASSUME IInv, NEW c \in daemon, Awaits(c), c.step < job[c.job].plan,
           applied' = IF Live(c.job) THEN [applied EXCEPT ![c.job] = @ \cup {c.step}]
                      ELSE applied,
           StepDone(c), UNCHANGED <<runs, crashes>>
    PROVE  IInv'
<1> USE ProvisionAssumption
<1>1. /\ c \in Command /\ c.job \in Jobs /\ c.step \in PlanSteps
      /\ job[c.job].plan \in 0..PlanLength
  BY CommandFacts
<1>2. exec[c.job] \in Exec /\ exec[c.job].step = c.step
  BY <1>1, Rows DEF Awaits, IInv
<1> DEFINE e == [exec[c.job] EXCEPT !.step = @ + 1]
           d == [c EXCEPT !.step = @ + 1]
<1>3. /\ exec' = [exec EXCEPT ![c.job] = e]
      /\ daemon' = (daemon \ {c}) \cup {d}
      /\ UNCHANGED <<job, tenant>>
  BY DEF StepDone
<1>4. c.step + 1 \in PlanSteps /\ c.step + 1 <= job[c.job].plan
      /\ 1..((c.step + 1) - 1) = 1..c.step
  BY <1>1 DEF PlanSteps
<1>5. /\ e \in Exec /\ e.step = c.step + 1 /\ e.runner = exec[c.job].runner
      /\ d \in Command /\ d.job = c.job /\ d.step = c.step + 1
  BY <1>1, <1>2, <1>4 DEF Exec, Command
<1> HIDE DEF e, d
<1>6. /\ applied' \in [Jobs -> SUBSET PlanSteps]
      /\ \A j \in Jobs : applied[j] \subseteq applied'[j]
      /\ \A j \in Jobs : \A s \in applied'[j] :
           job[j].status # "absent" /\ Live(j) /\ s <= job[j].plan
      /\ Live(c.job) => 1..c.step \subseteq applied'[c.job]
  BY Carried
<1>7. /\ exec' \in [Jobs -> Exec \cup {NoExec}]
      /\ exec'[c.job] = e
      /\ \A k \in Jobs : k # c.job => exec'[k] = exec[k]
  BY <1>1, <1>3, <1>5 DEF IInv, TypeOK
<1>8. \A x \in daemon' : x = d \/ (x \in daemon /\ x.job \in Jobs)
  BY <1>3 DEF IInv, TypeOK, Command
<1>9. TypeOK'
  BY <1>3, <1>5, <1>6, <1>7 DEF IInv, TypeOK
<1>10. ExecOwnsJob' /\ TwoPersonRule'
  BY <1>3, <1>4, <1>5, <1>7 DEF IInv, ExecOwnsJob, TwoPersonRule, Live, Awaits
<1>11. ExecProgress'
  BY <1>3, <1>4, <1>5, <1>6, <1>7 DEF IInv, ExecProgress, Live
<1>12. CommandsPlanned'
  BY <1>3, <1>4, <1>5, <1>8 DEF IInv, CommandsPlanned
<1>13. NoStepSkipped'
  BY <1>1, <1>3, <1>4, <1>5, <1>6, <1>8 DEF IInv, NoStepSkipped, Live
<1>14. AppliedPlanned'
  BY <1>3, <1>6 DEF AppliedPlanned, Live
<1>15. CompletedMeansApplied'
  BY <1>3, <1>6, CompletedKeeps DEF CompletedMeansApplied, Live
<1> QED
  BY <1>9, <1>10, <1>11, <1>12, <1>13, <1>14, <1>15 DEF IInv

\* The last step completes the job: by then the whole plan is on the machine.
LEMMA CompletionSafe ==
    ASSUME IInv, NEW c \in daemon, Awaits(c), ~(c.step < job[c.job].plan),
           applied' = IF Live(c.job) THEN [applied EXCEPT ![c.job] = @ \cup {c.step}]
                      ELSE applied,
           StepDone(c), UNCHANGED <<runs, crashes>>
    PROVE  IInv'
<1> USE ProvisionAssumption
<1>1. /\ c \in Command /\ c.job \in Jobs /\ c.step \in PlanSteps
      /\ job[c.job] \in Job /\ job[c.job].tenant \in Tenants
      /\ job[c.job].plan \in 0..PlanLength /\ c.step <= job[c.job].plan
  BY CommandFacts
<1>2. c.step = job[c.job].plan
  BY <1>1 DEF PlanSteps
<1>3. /\ job' = [job EXCEPT ![c.job].status = "completed"]
      /\ tenant' = [tenant EXCEPT ![job[c.job].tenant] = CompletedStatus(c.job)]
      /\ exec' = [exec EXCEPT ![c.job] = NoExec]
      /\ daemon' = daemon \ {c}
  BY DEF StepDone, Settle
<1>4. exec[c.job] \in Exec /\ job[c.job].status = "running"
  BY <1>1, Rows DEF Awaits, IInv, ExecOwnsJob
<1>5. "completed" \in JobStatus \ {"absent"} /\ CompletedStatus(c.job) \in TenantStatus
  BY <1>4 DEF JobStatus, CompletedStatus, TenantStatus, Exec
<1>6. /\ job' \in [Jobs -> Job \cup {NoJob}]
      /\ job'[c.job].status = "completed"
      /\ \A k \in Jobs : k # c.job => job'[k] = job[k]
      /\ \A k \in Jobs : /\ job'[k].dry = job[k].dry
                         /\ job'[k].plan = job[k].plan
                         /\ job'[k].approver = job[k].approver
                         /\ job'[k].requester = job[k].requester
                         /\ job'[k].status = "absent" <=> job[k].status = "absent"
  BY <1>1, <1>3, <1>4, <1>5, StatusOnly DEF IInv
<1>7. /\ exec' \in [Jobs -> Exec \cup {NoExec}]
      /\ exec'[c.job] = NoExec
      /\ \A k \in Jobs : k # c.job => exec'[k] = exec[k]
  BY <1>1, <1>3 DEF IInv, TypeOK
<1>8. /\ applied' \in [Jobs -> SUBSET PlanSteps]
      /\ \A j \in Jobs : applied[j] \subseteq applied'[j]
      /\ \A j \in Jobs : \A s \in applied'[j] :
           job[j].status # "absent" /\ Live(j) /\ s <= job[j].plan
      /\ Live(c.job) => 1..c.step \subseteq applied'[c.job]
  BY Carried
<1>9. \A x \in daemon' : x \in daemon /\ x.job \in Jobs
  BY <1>3 DEF IInv, TypeOK, Command
<1>10. TypeOK'
  BY <1>1, <1>3, <1>5, <1>6, <1>7, <1>8, <1>9 DEF IInv, TypeOK
<1>11. ExecOwnsJob' /\ ExecProgress'
  BY <1>6, <1>7, <1>8 DEF IInv, ExecOwnsJob, ExecProgress, Live
<1>12. CommandsPlanned' /\ NoStepSkipped'
  BY <1>6, <1>8, <1>9 DEF IInv, CommandsPlanned, NoStepSkipped, Live
<1>13. AppliedPlanned'
  BY <1>6, <1>8 DEF AppliedPlanned, Live
<1>14. TwoPersonRule'
  BY <1>1, <1>4, <1>6, <1>7 DEF IInv, TwoPersonRule, Live
<1>15. CompletedMeansApplied'
  <2>1. SUFFICES ASSUME NEW j \in Jobs, job'[j].status = "completed", Live(j)'
                 PROVE  applied'[j] = 1..job'[j].plan
    BY DEF CompletedMeansApplied
  <2>2. CASE j = c.job
    <3>1. applied'[j] \subseteq 1..job[j].plan /\ 1..job[j].plan \subseteq applied'[j]
      BY <1>1, <1>2, <1>6, <1>8, <2>1, <2>2 DEF PlanSteps, Live
    <3> QED
      BY <1>6, <3>1
  <2>3. CASE j # c.job
    BY <1>6, <1>8, <2>1, <2>3, CompletedKeeps DEF Live
  <2> QED
    BY <2>2, <2>3
<1> QED
  BY <1>10, <1>11, <1>12, <1>13, <1>14, <1>15 DEF IInv

---------------------------------------------------------------------------
LEMMA InitInv == Init => IInv
  BY ProvisionAssumption
     DEF Init, IInv, TypeOK, ExecOwnsJob, ExecProgress, CommandsPlanned, AppliedPlanned,
         TwoPersonRule, NoStepSkipped, CompletedMeansApplied, NoJob, TenantStatus

\* The answers of the daemon.
LEMMA DaemonSafe ==
    ASSUME IInv, NEW c \in daemon,
           DaemonSucceeds(c) \/ DaemonFails(c) \/ DaemonDies(c)
    PROVE  IInv'
<1>1. /\ c.job \in Jobs /\ job[c.job].status # "absent" /\ job[c.job].tenant \in Tenants
      /\ exec \in [Jobs -> Exec \cup {NoExec}] /\ runs \in 0..MaxRuns
  BY CommandFacts DEF IInv, TypeOK, CommandsPlanned
<1>2. CASE DaemonSucceeds(c)
  <2>1. /\ applied' = IF Live(c.job) THEN [applied EXCEPT ![c.job] = @ \cup {c.step}]
                      ELSE applied
        /\ UNCHANGED <<runs, crashes>>
    BY <1>2 DEF DaemonSucceeds
  <2>2. CASE Awaits(c)
    <3>1. StepDone(c)
      BY <1>2, <2>2 DEF DaemonSucceeds
    <3> QED
      BY <2>1, <2>2, <3>1, NextStepSafe, CompletionSafe
  <2>3. CASE ~Awaits(c)
    <3>1. daemon' = daemon \ {c} /\ UNCHANGED <<job, tenant, exec>>
      BY <1>2, <2>3 DEF DaemonSucceeds
    <3> QED
      BY <1>1, <2>1, <3>1, UnheardSafe
  <2> QED
    BY <2>2, <2>3
<1>3. CASE DaemonFails(c)
  <2>1. daemon' = daemon \ {c} /\ UNCHANGED <<applied, runs, crashes>>
    BY <1>3 DEF DaemonFails
  <2>2. CASE Awaits(c)
    <3>1. Fail(c.job)
      BY <1>3, <2>2 DEF DaemonFails
    <3> QED
      BY <1>1, <2>1, <3>1, FailSafe
  <2>3. CASE ~Awaits(c)
    <3>1. UNCHANGED <<job, tenant, exec>>
      BY <1>3, <2>3 DEF DaemonFails
    <3> QED
      BY <1>1, <2>1, <3>1, UnheardSafe
  <2> QED
    BY <2>2, <2>3
<1>4. CASE DaemonDies(c)
  <2>1. /\ daemon' = daemon \ {c}
        /\ UNCHANGED <<tenant, job, runs, crashes>>
        /\ \/ UNCHANGED applied
           \/ Live(c.job) /\ applied' = [applied EXCEPT ![c.job] = @ \cup {c.step}]
    BY <1>4 DEF DaemonDies
  <2>2. CASE Awaits(c)
    <3> DEFINE e == [exec[c.job] EXCEPT !.hung = TRUE]
    <3>1. exec' = [exec EXCEPT ![c.job] = e]
      BY <1>4, <2>2 DEF DaemonDies
    <3>2. e \in Exec /\ e.step = exec[c.job].step /\ e.runner = exec[c.job].runner
          /\ exec[c.job] # NoExec
      BY <1>1, <2>2, Rows DEF Awaits, Exec, IInv
    <3> HIDE DEF e
    <3>3. /\ exec' \in [Jobs -> Exec \cup {NoExec}]
          /\ \A j \in Jobs : exec'[j] # NoExec =>
               /\ exec[j] # NoExec
               /\ exec'[j].step = exec[j].step /\ exec'[j].runner = exec[j].runner
      BY <1>1, <3>1, <3>2
    <3> QED
      BY <2>1, <3>3, UnheardSafe
  <2>3. CASE ~Awaits(c)
    <3>1. exec' = exec
      BY <1>4, <2>3 DEF DaemonDies
    <3> QED
      BY <1>1, <2>1, <3>1, UnheardSafe
  <2> QED
    BY <2>2, <2>3
<1> QED
  BY <1>2, <1>3, <1>4

\* Approvals, rejections, cancellations and timeouts.
LEMMA JobStepSafe ==
    ASSUME IInv, NEW j \in Jobs, NEW actor \in Actors,
           Approve(j, actor) \/ Reject(j) \/ Cancel(j) \/ ClientTimeout(j)
    PROVE  IInv'
<1>1. CASE Approve(j, actor)
  <2>1. /\ job[j].status \notin {"absent", "running", "completed"}
        /\ job' = [job EXCEPT ![j].status = "approved", ![j].approver = actor]
        /\ UNCHANGED <<tenant, exec, daemon, applied, runs, crashes>>
        /\ "approved" \in JobStatus
    BY <1>1 DEF Approve, JobStatus
  <2> QED
    BY <2>1, DecisionSafe
<1>2. ASSUME NEW status \in {"rejected", "cancelled"},
             SetStatus(j, {"queued", "approved", "failed", "rejected"}, status)
      PROVE  IInv'
  <2>1. /\ job[j].status \notin {"absent", "running", "completed"}
        /\ job' = [job EXCEPT ![j].status = status]
        /\ UNCHANGED <<tenant, exec, daemon, applied, runs, crashes>>
        /\ status \in JobStatus
    BY <1>2 DEF SetStatus, JobStatus
  <2>2. job[j] \in Job /\ job \in [Jobs -> Job \cup {NoJob}]
    BY <2>1, Rows DEF IInv, TypeOK
  <2>3. job[j].approver \in Actors \cup {None}
    BY <2>2 DEF Job
  <2>4. [job[j] EXCEPT !.status = status]
          = [job[j] EXCEPT !.status = status, !.approver = job[j].approver]
    BY <2>2 DEF Job
  <2>5. job' = [job EXCEPT ![j].status = status, ![j].approver = job[j].approver]
    BY <2>1, <2>2, <2>4
  <2> QED
    BY <2>1, <2>3, <2>5, DecisionSafe
<1>3. CASE Reject(j)
  BY <1>2, <1>3 DEF Reject, SetStatus
<1>4. CASE Cancel(j)
  BY <1>2, <1>4 DEF Cancel
<1>5. CASE ClientTimeout(j)
  <2>1. exec[j] # NoExec /\ Fail(j) /\ UNCHANGED <<daemon, applied, runs, crashes>>
    BY <1>5 DEF ClientTimeout
  <2>2. job[j] \in Job /\ job[j].status # "absent"
    BY <2>1, Rows DEF IInv, ExecOwnsJob
  <2>3. job[j].tenant \in Tenants /\ runs \in 0..MaxRuns
    BY <2>2 DEF Job, IInv, TypeOK
  <2> QED
    BY <2>1, <2>2, <2>3, FailSafe
<1> QED
  BY <1>1, <1>3, <1>4, <1>5

\* A crash only forgets executions.
LEMMA CrashSafe == IInv /\ Crash => IInv'
<1> SUFFICES ASSUME IInv, Crash PROVE IInv'
  OBVIOUS
<1>1. /\ crashes' \in 0..MaxCrashes
      /\ exec' = [j \in Jobs |-> NoExec]
      /\ UNCHANGED <<tenant, job, daemon, applied, runs>>
  BY ProvisionAssumption DEF Crash, IInv, TypeOK
<1> QED
  BY <1>1 DEF IInv, TypeOK, ExecOwnsJob, ExecProgress, CommandsPlanned, AppliedPlanned,
              Live, TwoPersonRule, NoStepSkipped, CompletedMeansApplied

LEMMA NextInv == IInv /\ [Next]_vars => IInv'
<1> SUFFICES ASSUME IInv, [Next]_vars PROVE IInv'
  OBVIOUS
<1> USE ProvisionAssumption
<1>1. tenant \in [Tenants -> TenantStatus]
  BY DEF IInv, TypeOK
<1>2. ASSUME NEW t \in Tenants, NEW j \in Jobs, NEW actor \in Actors, NEW dry \in BOOLEAN,
             CreateTenantAndBootstrapJob(t, j, dry, actor)
             \/ CreateTenantDecommissionJob(t, j, dry, actor)
      PROVE  IInv'
  <2>1. tenant' \in [Tenants -> TenantStatus]
    BY <1>1, <1>2 DEF CreateTenantAndBootstrapJob, CreateTenantDecommissionJob, TenantStatus
  <2>2. PICK type \in JobType, plan \in 0..PlanLength, complete \in BOOLEAN :
            Queue(j, t, type, dry, actor, plan, dry, complete)
    <3>1. PlanLength \in 0..PlanLength
      OBVIOUS
    <3>2. \E type \in JobType : Queue(j, t, type, dry, actor, PlanLength, dry, TRUE)
      BY <1>2 DEF CreateTenantAndBootstrapJob, CreateTenantDecommissionJob, JobType
    <3> QED
      BY <3>1, <3>2, Zenon
  <2> QED
    BY <2>1, <2>2, QueueSafe
<1>3. ASSUME NEW t \in Tenants, NEW j \in Jobs, NEW type \in JobType, NEW dry \in BOOLEAN,
             NEW actor \in Actors, NEW plan \in {0, PlanLength},
             NEW requestDry \in BOOLEAN, NEW complete \in BOOLEAN,
             QueueJob(t, j, type, dry, actor, plan, requestDry, complete)
      PROVE  IInv'
  <2>1. tenant' \in [Tenants -> TenantStatus] /\ plan \in 0..PlanLength
    BY <1>1, <1>3 DEF QueueJob
  <2>2. Queue(j, t, type, dry, actor, plan, requestDry, complete)
    BY <1>3 DEF QueueJob
  <2> QED
    BY <2>1, <2>2, QueueSafe
<1>4. CASE UNCHANGED vars
  <2>1. TypeOK' /\ UNCHANGED <<job, exec, daemon, applied>>
    BY <1>4 DEF vars, IInv, TypeOK
  <2> QED
    BY <2>1, Untouched
<1>5. CASE \E j \in Jobs :
             \/ \E actor \in Actors : Approve(j, actor) \/ ExecuteProvisionJob(j, actor)
             \/ Reject(j)
             \/ Cancel(j)
             \/ ClientTimeout(j)
  <2>1. PICK j \in Jobs :
             \/ \E actor \in Actors : Approve(j, actor) \/ ExecuteProvisionJob(j, actor)
             \/ Reject(j)
             \/ Cancel(j)
             \/ ClientTimeout(j)
    BY <1>5
  <2>2. job[j].status = "absent" \/ job[j].requester \in Actors
    BY Rows DEF IInv, Job
  <2>3. CASE job[j].status = "absent"
    <3>1. exec[j] = NoExec
      BY <2>3 DEF IInv, ExecOwnsJob
    <3> QED
      BY <2>1, <2>3, <3>1, ExecuteSafe
         DEF Approve, Reject, Cancel, SetStatus, ClientTimeout
  <2>4. CASE job[j].requester \in Actors
    BY <2>1, <2>4, JobStepSafe, ExecuteSafe
  <2> QED
    BY <2>2, <2>3, <2>4
<1> QED
  BY <1>2, <1>3, <1>4, <1>5, DaemonSafe, CrashSafe DEF Next

---------------------------------------------------------------------------
LEMMA Inductive == Spec => []IInv
  BY InitInv, NextInv, PTL DEF Spec

\* Every variable stays within its type, whatever rows, commands and
\* executions there are.
THEOREM TypeCorrect == Spec => []TypeOK
<1>1. IInv => TypeOK
  BY DEF IInv
<1> QED
  BY <1>1, Inductive, PTL

\* The checks of executeProvisionJob, made once when a job starts, hold until
\* its end: nobody can change requester, approver or the dry_run of a running
\* job.
THEOREM TwoPersonSafe == Spec => []TwoPersonRule
<1>1. IInv => TwoPersonRule
  BY DEF IInv
<1> QED
  BY <1>1, Inductive, PTL

\* The sequential awaits of the step loop keep the plan in order on the
\* machine, across timeouts, crashes and repeated executions.
THEOREM OrderSafe == Spec => []NoStepSkipped
<1>1. IInv => NoStepSkipped
  BY DEF IInv
<1> QED
  BY <1>1, Inductive, PTL

\* A job reaches completed only through the answer to its last step.
THEOREM CompletionTruthful == Spec => []CompletedMeansApplied
<1>1. IInv => CompletedMeansApplied
  BY DEF IInv
<1> QED
  BY <1>1, Inductive, PTL

\* The dry_run of the row, and not the request, decides what the daemon does.
THEOREM DryRunSafe == Spec => []DryRunsChangeNothing
<1>1. IInv => DryRunsChangeNothing
  <2>1. SUFFICES ASSUME IInv, NEW j \in Jobs, job[j].dry
                 PROVE  applied[j] = {}
    BY DEF DryRunsChangeNothing
  <2> QED
    BY <2>1 DEF IInv, AppliedPlanned, Live
<1> QED
  BY <1>1, Inductive, PTL

---------------------------------------------------------------------------
(* What a step does to the row of a job *)

\* The row is as it was, or as a request or the end of its execution leaves it.
RowMoves(j) ==
    \/ job'[j] = job[j]
    \/ job[j].status = "absent"
    \/ /\ job[j].status \in {"queued", "approved", "failed", "rejected"}
       /\ \E status : job'[j] = [job[j] EXCEPT !.status = status]
    \/ /\ job[j].status \in {"queued", "approved", "failed", "rejected"}
       /\ \E actor : job'[j] = [job[j] EXCEPT !.status = "approved", !.approver = actor]
    \/ /\ exec[j] # NoExec /\ exec'[j] = NoExec
       /\ \E status \in {"completed", "failed"} : job'[j] = [job[j] EXCEPT !.status = status]

LEMMA OneRowMoves ==
    ASSUME IInv, NEW j \in Jobs,
           \/ UNCHANGED job
           \/ \E new : job' = [job EXCEPT ![j] = new],
           RowMoves(j)
    PROVE  \A k \in Jobs : RowMoves(k)
BY DEF IInv, TypeOK, RowMoves

LEMMA SettleMoves ==
    ASSUME IInv, NEW j \in Jobs, NEW status \in {"completed", "failed"}, NEW ts,
           exec[j] # NoExec, Settle(j, status, ts)
    PROVE  \A k \in Jobs : RowMoves(k)
<1>1. job' = [job EXCEPT ![j] = [job[j] EXCEPT !.status = status]]
  BY DEF Settle
<1>2. exec'[j] = NoExec /\ job'[j] = [job[j] EXCEPT !.status = status]
  BY <1>1 DEF Settle, IInv, TypeOK
<1>3. RowMoves(j)
  BY <1>2 DEF RowMoves
<1> QED
  BY <1>1, <1>3, OneRowMoves

LEMMA QueueMoves ==
    ASSUME IInv, NEW j \in Jobs, NEW t, NEW type, NEW dry, NEW actor, NEW plan,
           NEW requestDry, NEW complete,
           Queue(j, t, type, dry, actor, plan, requestDry, complete)
    PROVE  \A k \in Jobs : RowMoves(k)
<1>1. RowMoves(j)
  BY DEF Queue, RowMoves
<1>2. \E new : job' = [job EXCEPT ![j] = new]
  BY DEF Queue
<1> QED
  BY <1>1, <1>2, OneRowMoves

LEMMA RequestMoves ==
    ASSUME IInv, NEW j \in Jobs,
           \/ \E actor \in Actors : Approve(j, actor) \/ ExecuteProvisionJob(j, actor)
           \/ Reject(j) \/ Cancel(j) \/ ClientTimeout(j)
    PROVE  \A k \in Jobs : RowMoves(k)
<1>1. CASE \E actor \in Actors : Approve(j, actor)
  <2>1. PICK actor \in Actors : Approve(j, actor)
    BY <1>1
  <2>2. job' = [job EXCEPT ![j] = [job[j] EXCEPT !.status = "approved", !.approver = actor]]
    BY <2>1 DEF Approve, IInv, TypeOK, Job, NoJob
  <2>3. job'[j] = [job[j] EXCEPT !.status = "approved", !.approver = actor]
    BY <2>2 DEF IInv, TypeOK
  <2>4. RowMoves(j)
    BY <2>1, <2>3 DEF Approve, RowMoves
  <2> QED
    BY <2>2, <2>4, OneRowMoves
<1>2. CASE \E actor \in Actors : ExecuteProvisionJob(j, actor)
  <2>1. PICK status : /\ job[j].status = "approved"
                      /\ job' = [job EXCEPT ![j].status = status]
    BY <1>2 DEF ExecuteProvisionJob, Runnable, Settle
  <2>2. job' = [job EXCEPT ![j] = [job[j] EXCEPT !.status = status]]
    BY <2>1
  <2>3. job'[j] = [job[j] EXCEPT !.status = status]
    BY <2>2 DEF IInv, TypeOK
  <2>4. RowMoves(j)
    BY <2>1, <2>3 DEF RowMoves
  <2> QED
    BY <2>2, <2>4, OneRowMoves
<1>3. CASE Reject(j) \/ Cancel(j)
  <2>1. PICK status : /\ job[j].status \in {"queued", "approved", "failed", "rejected"}
                      /\ job' = [job EXCEPT ![j].status = status]
    BY <1>3 DEF Reject, Cancel, SetStatus
  <2>2. job' = [job EXCEPT ![j] = [job[j] EXCEPT !.status = status]]
    BY <2>1
  <2>3. job'[j] = [job[j] EXCEPT !.status = status]
    BY <2>2 DEF IInv, TypeOK
  <2>4. RowMoves(j)
    BY <2>1, <2>3 DEF RowMoves
  <2> QED
    BY <2>2, <2>4, OneRowMoves
<1>4. CASE ClientTimeout(j)
  BY <1>4, SettleMoves DEF ClientTimeout, Fail
<1> QED
  BY <1>1, <1>2, <1>3, <1>4

LEMMA DaemonMoves ==
    ASSUME IInv, NEW c \in daemon, DaemonSucceeds(c) \/ DaemonFails(c) \/ DaemonDies(c)
    PROVE  \A k \in Jobs : RowMoves(k)
<1>1. c.job \in Jobs
  BY DEF IInv, TypeOK, Command
<1>2. CASE UNCHANGED job
  BY <1>2 DEF RowMoves
<1>3. CASE \E status \in {"completed", "failed"} : \E ts : Awaits(c) /\ Settle(c.job, status, ts)
  BY <1>1, <1>3, SettleMoves DEF Awaits
<1> QED
  BY <1>2, <1>3 DEF DaemonSucceeds, DaemonFails, DaemonDies, StepDone, Fail

LEMMA EveryRowMoves == IInv /\ [Next]_vars => \A k \in Jobs : RowMoves(k)
<1> SUFFICES ASSUME IInv, [Next]_vars PROVE \A k \in Jobs : RowMoves(k)
  OBVIOUS
<1>1. CASE UNCHANGED job
  BY <1>1 DEF RowMoves
<1>2. ASSUME NEW t \in Tenants, NEW j \in Jobs, NEW actor \in Actors, NEW dry \in BOOLEAN,
             \/ CreateTenantAndBootstrapJob(t, j, dry, actor)
             \/ CreateTenantDecommissionJob(t, j, dry, actor)
             \/ \E type \in JobType, plan \in {0, PlanLength}, requestDry, complete \in BOOLEAN :
                  QueueJob(t, j, type, dry, actor, plan, requestDry, complete)
      PROVE  \A k \in Jobs : RowMoves(k)
  BY <1>2, QueueMoves DEF CreateTenantAndBootstrapJob, CreateTenantDecommissionJob, QueueJob
<1> QED
  BY <1>1, <1>2, RequestMoves, DaemonMoves DEF Next, Crash, vars

\* Only status and approver of a row change.
LEMMA RequestKept ==
    ASSUME NEW row \in Job, NEW status, NEW approver
    PROVE  /\ [[row EXCEPT !.status = status] EXCEPT !.status = "", !.approver = ""] =
                [row EXCEPT !.status = "", !.approver = ""]
           /\ [[row EXCEPT !.status = status, !.approver = approver]
                 EXCEPT !.status = "", !.approver = ""] =
                [row EXCEPT !.status = "", !.approver = ""]
BY DEF Job

\* transitionProvisionJobStatus and executeProvisionJob change status and
\* approver only, nothing that is completed or cancelled, and a running job only
\* as its execution ends.
THEOREM HistorySafe == Spec => JobHistory
<1>1. IInv /\ [Next]_vars =>
        [\A j \in Jobs : job[j].status # "absent" =>
           /\ [job'[j] EXCEPT !.status = "", !.approver = ""] =
              [job[j] EXCEPT !.status = "", !.approver = ""]
           /\ job[j].status \in {"completed", "cancelled"} => job'[j] = job[j]
           /\ job[j].status = "running" =>
                \/ job'[j] = job[j]
                \/ /\ job'[j].status \in {"completed", "failed"}
                   /\ exec[j] # NoExec /\ exec'[j] = NoExec]_vars
  <2> SUFFICES ASSUME IInv, [Next]_vars, NEW j \in Jobs, job[j].status # "absent"
               PROVE  /\ [job'[j] EXCEPT !.status = "", !.approver = ""] =
                         [job[j] EXCEPT !.status = "", !.approver = ""]
                      /\ job[j].status \in {"completed", "cancelled"} => job'[j] = job[j]
                      /\ job[j].status = "running" =>
                           \/ job'[j] = job[j]
                           \/ /\ job'[j].status \in {"completed", "failed"}
                              /\ exec[j] # NoExec /\ exec'[j] = NoExec
    OBVIOUS
  <2>1. job[j] \in Job /\ RowMoves(j)
    BY Rows, EveryRowMoves DEF IInv
  <2>2. exec[j] # NoExec => job[j].status = "running"
    BY DEF IInv, ExecOwnsJob
  <2>3. [job'[j] EXCEPT !.status = "", !.approver = ""] =
        [job[j] EXCEPT !.status = "", !.approver = ""]
    BY <2>1, RequestKept DEF RowMoves
  <2>4. \A status : [job[j] EXCEPT !.status = status].status = status
    BY <2>1 DEF Job
  <2> QED
    BY <2>1, <2>2, <2>3, <2>4 DEF RowMoves
<1> QED
  BY <1>1, Inductive, PTL DEF Spec, JobHistory

---------------------------------------------------------------------------
(* The promise *)

\* What the machine has carried out of a job is a beginning of its plan.
AppliedInOrder ==
    \A j \in Jobs : Progress(j) \in 0..PlanLength /\ applied[j] = 1..Progress(j)

LEMMA ProgressIs ==
    ASSUME NEW S, NEW n \in 0..PlanLength, S = 1..n
    PROVE  (CHOOSE m \in 0..PlanLength : S = 1..m) = n
<1> USE ProvisionAssumption
<1> DEFINE m == CHOOSE m \in 0..PlanLength : S = 1..m
<1>1. m \in 0..PlanLength /\ S = 1..m
  OBVIOUS
<1> HIDE DEF m
<1>2. (n > 0 => n \in 1..m) /\ (m > 0 => m \in 1..n)
  BY <1>1
<1> QED
  BY <1>1, <1>2

\* What became of a job's plan on the machine when step s was carried out.
LEMMA ProgressGrows ==
    ASSUME IInv, AppliedInOrder, NEW c \in daemon, Live(c.job),
           applied' = [applied EXCEPT ![c.job] = @ \cup {c.step}]
    PROVE  /\ c.step <= Progress(c.job) + 1
           /\ Progress(c.job)' = IF c.step > Progress(c.job) THEN c.step ELSE Progress(c.job)
           /\ Progress(c.job)' \in 0..PlanLength
           /\ applied'[c.job] = 1..Progress(c.job)'
           /\ \A k \in Jobs : k # c.job => applied'[k] = applied[k] /\ Progress(k)' = Progress(k)
<1> USE ProvisionAssumption
<1> DEFINE n == Progress(c.job)
           s == c.step
           m == IF s > n THEN s ELSE n
<1>1. /\ c.job \in Jobs /\ s \in 1..PlanLength /\ 1..(s - 1) \subseteq applied[c.job]
      /\ n \in 0..PlanLength /\ applied[c.job] = 1..n
  BY CommandFacts DEF AppliedInOrder, PlanSteps
<1> HIDE DEF n, s
<1>2. s <= n + 1
  <2>1. s > 1 => s - 1 \in 1..n
    BY <1>1
  <2> QED
    BY <1>1, <2>1
<1>3. /\ applied'[c.job] = applied[c.job] \cup {s}
      /\ \A k \in Jobs : k # c.job => applied'[k] = applied[k]
  BY <1>1 DEF IInv, TypeOK, s
<1>4. m \in 0..PlanLength /\ (1..n) \cup {s} = 1..m
  BY <1>1, <1>2
<1> HIDE DEF m
<1>5. applied'[c.job] = 1..m
  BY <1>1, <1>3, <1>4
<1>6. Progress(c.job)' = m
  BY <1>4, <1>5, ProgressIs DEF Progress
<1>7. \A k \in Jobs : k # c.job => Progress(k)' = Progress(k)
  BY <1>3 DEF Progress
<1> QED
  BY <1>2, <1>3, <1>4, <1>5, <1>6, <1>7 DEF m, n, s

LEMMA ProgressKept ==
    ASSUME NEW j \in Jobs, applied'[j] = applied[j]
    PROVE  Progress(j)' = Progress(j)
BY DEF Progress

LEMMA OrderKept == IInv /\ AppliedInOrder /\ [Next]_vars => AppliedInOrder'
<1> SUFFICES ASSUME IInv, AppliedInOrder, [Next]_vars PROVE AppliedInOrder'
  OBVIOUS
<1>1. CASE UNCHANGED applied
  BY <1>1 DEF AppliedInOrder, Progress
<1>2. CASE \E c \in daemon : /\ Live(c.job)
                             /\ applied' = [applied EXCEPT ![c.job] = @ \cup {c.step}]
  <2>1. PICK c \in daemon : /\ Live(c.job)
                            /\ applied' = [applied EXCEPT ![c.job] = @ \cup {c.step}]
    BY <1>2
  <2>2. SUFFICES ASSUME NEW k \in Jobs
                 PROVE  Progress(k)' \in 0..PlanLength /\ applied'[k] = 1..Progress(k)'
    BY DEF AppliedInOrder
  <2>3. CASE k = c.job
    BY <2>1, <2>3, ProgressGrows
  <2>4. CASE k # c.job
    BY <2>1, <2>4, ProgressGrows DEF AppliedInOrder
  <2> QED
    BY <2>3, <2>4
<1>3. CASE \E c \in daemon : DaemonSucceeds(c) \/ DaemonFails(c) \/ DaemonDies(c)
  BY <1>1, <1>2, <1>3 DEF DaemonSucceeds, DaemonFails, DaemonDies
<1>4. ASSUME NEW t \in Tenants, NEW j \in Jobs, NEW actor \in Actors, NEW dry \in BOOLEAN,
             \/ CreateTenantAndBootstrapJob(t, j, dry, actor)
             \/ CreateTenantDecommissionJob(t, j, dry, actor)
             \/ \E type \in JobType, plan \in {0, PlanLength}, requestDry, complete \in BOOLEAN :
                  QueueJob(t, j, type, dry, actor, plan, requestDry, complete)
      PROVE  UNCHANGED applied
  BY <1>4 DEF CreateTenantAndBootstrapJob, CreateTenantDecommissionJob, QueueJob, Queue
<1>5. ASSUME NEW j \in Jobs,
             \/ \E actor \in Actors : Approve(j, actor) \/ ExecuteProvisionJob(j, actor)
             \/ Reject(j) \/ Cancel(j) \/ ClientTimeout(j)
      PROVE  UNCHANGED applied
  BY <1>5 DEF Approve, ExecuteProvisionJob, Reject, Cancel, SetStatus, ClientTimeout
<1>6. CASE Crash
  BY <1>1, <1>6 DEF Crash
<1> QED
  BY <1>1, <1>3, <1>4, <1>5, <1>6 DEF Next, vars

LEMMA OrderStarts == Init => AppliedInOrder
<1> SUFFICES ASSUME Init, NEW j \in Jobs
             PROVE  Progress(j) \in 0..PlanLength /\ applied[j] = 1..Progress(j)
  BY DEF AppliedInOrder
<1>1. applied[j] = 1..0 /\ 0 \in 0..PlanLength
  BY ProvisionAssumption DEF Init
<1>2. Progress(j) = 0
  BY <1>1, ProgressIs DEF Progress
<1> QED
  BY <1>1, <1>2

LEMMA InOrder == Spec => []AppliedInOrder
BY OrderStarts, OrderKept, Inductive, PTL DEF Spec

\* The actions of ApprovedChanges, read in the variables of ProvisionJobs.
SameRequest(j) == Length(j)' = Length(j) /\ Consent(j)' = Consent(j)
SameMachine(j) == Asked(j)' = Asked(j) /\ Progress(j)' = Progress(j)
Answered(j, s, next) ==
    /\ s \in Asked(j)
    /\ Asked(j)' \in {Asked(j) \cup next, (Asked(j) \ {s}) \cup next}
CarriedOut(j, s) ==
    s <= Progress(j) + 1 /\ Progress(j)' = IF s > Progress(j) THEN s ELSE Progress(j)

Moved(j) ==
    \/ Promised!Request(j) \/ Promised!Review(j) \/ Promised!Withdraw(j)
    \/ Promised!Start(j) \/ Promised!GiveUp(j) \/ Promised!Rehearsed(j)
    \/ \E s \in 1..Length(j) :
         Promised!NextStep(j, s) \/ Promised!LastStep(j, s) \/ Promised!OtherAnswer(j, s)
    \/ Phase(j)' = Phase(j) /\ SameRequest(j) /\ SameMachine(j)

LEMMA Requesting ==
    ASSUME NEW j \in Jobs, Phase(j) = "none", Phase(j)' = "open", Length(j)' \in Nat,
           Consent(j)' = FALSE, SameMachine(j)
    PROVE  Moved(j)
BY DEF Moved, SameMachine, Promised!Request, Promised!Moves, Promised!MachineKept

LEMMA Deciding ==
    ASSUME NEW j \in Jobs, Phase(j) = "open", Length(j)' = Length(j), SameMachine(j),
           \/ Phase(j)' = "open" /\ Consent(j)' \in BOOLEAN
           \/ Phase(j)' = "cancelled" /\ SameRequest(j)
    PROVE  Moved(j)
BY DEF Moved, SameMachine, SameRequest, Promised!Review, Promised!Withdraw, Promised!Moves,
       Promised!MachineKept, Promised!RequestKept

LEMMA Starting ==
    ASSUME NEW j \in Jobs, Phase(j) = "open", Phase(j)' = "running",
           Length(j) > 0 => Consent(j), SameRequest(j),
           Asked(j)' = Asked(j) \cup (1..Length(j) \cap {1}), Progress(j)' = Progress(j)
    PROVE  Moved(j)
BY DEF Moved, SameRequest, Promised!Start, Promised!Moves, Promised!RequestKept

LEMMA Ending ==
    ASSUME NEW j \in Jobs, Phase(j) = "running", SameRequest(j), SameMachine(j),
           \/ Phase(j)' \in {"open", "stranded"}
           \/ Phase(j)' = "completed" /\ Length(j) = 0
    PROVE  Moved(j)
BY DEF Moved, SameRequest, SameMachine, Promised!GiveUp, Promised!Rehearsed, Promised!Moves,
       Promised!RequestKept, Promised!MachineKept

LEMMA Advancing ==
    ASSUME NEW j \in Jobs, NEW s \in 1..Length(j), SameRequest(j), Phase(j) = "running",
           CarriedOut(j, s),
           \/ Phase(j)' = "running" /\ s < Length(j) /\ Answered(j, s, {s + 1})
           \/ Phase(j)' = "completed" /\ s = Length(j) /\ Answered(j, s, {})
              /\ Progress(j)' = Length(j)
    PROVE  Moved(j)
<1>1. CASE Phase(j)' = "running" /\ s < Length(j) /\ Answered(j, s, {s + 1})
  <2>1. Promised!NextStep(j, s)
    BY <1>1 DEF SameRequest, CarriedOut, Answered, Promised!NextStep, Promised!Moves,
       Promised!Answered, Promised!CarriedOut, Promised!RequestKept
  <2> QED
    BY <2>1 DEF Moved
<1>2. CASE Phase(j)' = "completed" /\ s = Length(j) /\ Answered(j, s, {})
           /\ Progress(j)' = Length(j)
  <2>1. Promised!LastStep(j, s)
    BY <1>2 DEF SameRequest, CarriedOut, Answered, Promised!LastStep, Promised!Moves,
       Promised!Answered, Promised!CarriedOut, Promised!RequestKept
  <2> QED
    BY <2>1 DEF Moved
<1> QED
  BY <1>1, <1>2

LEMMA Answering ==
    ASSUME NEW j \in Jobs, NEW s \in 1..Length(j), SameRequest(j), Answered(j, s, {}),
           CarriedOut(j, s) \/ Progress(j)' = Progress(j),
           \/ Phase(j)' = Phase(j)
           \/ Phase(j) = "running" /\ Phase(j)' = "open" /\ Progress(j)' = Progress(j)
           \/ Phase(j) = "running" /\ Phase(j)' = "stranded"
    PROVE  Moved(j)
<1>1. Promised!OtherAnswer(j, s)
  BY DEF SameRequest, CarriedOut, Answered, Promised!OtherAnswer, Promised!Moves,
     Promised!Answered, Promised!CarriedOut, Promised!RequestKept
<1> QED
  BY <1>1 DEF Moved

LEMMA Resting ==
    ASSUME NEW j \in Jobs, Phase(j)' = Phase(j), SameRequest(j), SameMachine(j)
    PROVE  Moved(j)
BY DEF Moved

---------------------------------------------------------------------------
(* What the steps of ProvisionJobs are in these terms *)

LEMMA RequestAs ==
    ASSUME NEW j \in Jobs, job'[j].dry = job[j].dry, job'[j].plan = job[j].plan,
           job'[j].status = "absent" <=> job[j].status = "absent"
    PROVE  /\ Length(j)' = Length(j)
           /\ job'[j].approver = job[j].approver /\ job'[j].requester = job[j].requester =>
                SameRequest(j)
BY DEF SameRequest, Length, Consent, Requested, Live

\* The commands of a job are the same, or there are none on either side.
LEMMA AskedAs ==
    ASSUME NEW j \in Jobs, Length(j)' = Length(j),
           \A c : c.job = j => (c \in daemon' <=> c \in daemon)
    PROVE  Asked(j)' = Asked(j)
BY DEF Asked

\* A job none of whose row, execution, commands and work changes.
LEMMA Aside ==
    ASSUME NEW j \in Jobs, job'[j] = job[j], exec'[j] = exec[j], applied'[j] = applied[j],
           \A c : c.job = j => (c \in daemon' <=> c \in daemon)
    PROVE  Moved(j)
<1>1. Length(j)' = Length(j) /\ SameRequest(j)
  BY RequestAs
<1>2. Phase(j)' = Phase(j)
  BY DEF Phase
<1> QED
  BY <1>1, <1>2, AskedAs, ProgressKept, Resting DEF SameMachine

LEMMA QueueAs ==
    ASSUME IInv, NEW j \in Jobs, NEW t \in Tenants, NEW type, NEW dry \in BOOLEAN,
           NEW actor \in Actors, NEW plan \in 0..PlanLength, NEW requestDry, NEW complete,
           Queue(j, t, type, dry, actor, plan, requestDry, complete)
    PROVE  \A k \in Jobs : Moved(k)
<1> DEFINE row == [status |-> "queued", tenant |-> t, type |-> type, dry |-> dry,
                   requester |-> actor, approver |-> None, plan |-> plan,
                   requestDry |-> requestDry, complete |-> complete]
<1>1. job[j].status = "absent" /\ job' = [job EXCEPT ![j] = row]
  BY DEF Queue
<1>2. UNCHANGED <<exec, daemon, applied>>
  BY DEF Queue
<1>3. row.status = "queued" /\ row.approver = None /\ row.plan = plan
  OBVIOUS
<1> HIDE DEF row
<1>4. job'[j] = row /\ \A k \in Jobs : k # j => job'[k] = job[k]
  BY <1>1 DEF IInv, TypeOK
<1>5. \A c \in daemon : c.job # j
  BY <1>1 DEF IInv, CommandsPlanned
<1>6. Asked(j) = {} /\ Asked(j)' = {}
  BY <1>2, <1>5 DEF Asked
<1>7. SameMachine(j)
  BY <1>2, <1>6, ProgressKept DEF SameMachine
<1>8. Phase(j) = "none" /\ Phase(j)' = "open"
  BY <1>1, <1>3, <1>4 DEF Phase
<1>9. Length(j)' \in Nat /\ Consent(j)' = FALSE
  BY <1>3, <1>4, ProvisionAssumption DEF Length, Consent, Requested
<1>10. Moved(j)
  BY <1>7, <1>8, <1>9, Requesting
<1> QED
  BY <1>2, <1>4, <1>10, Aside

\* Open jobs are decided about: only their status and approver change.
LEMMA DecisionAs ==
    ASSUME IInv, NEW j \in Jobs,
           job[j].status \in {"queued", "approved", "failed", "rejected"},
           job'[j].status \in {"approved", "failed", "rejected", "cancelled"},
           job'[j].dry = job[j].dry, job'[j].plan = job[j].plan,
           job'[j].requester = job[j].requester,
           job'[j].status = "cancelled" => job'[j].approver = job[j].approver,
           \A k \in Jobs : k # j => job'[k] = job[k],
           \A k \in Jobs : exec'[k] = exec[k],
           daemon' = daemon, applied' = applied
    PROVE  \A k \in Jobs : Moved(k)
<1>1. Length(j)' = Length(j) /\ (job'[j].approver = job[j].approver => SameRequest(j))
  BY RequestAs
<1>2. SameMachine(j)
  BY <1>1, AskedAs, ProgressKept DEF SameMachine
<1>3. Phase(j) = "open" /\ Phase(j)' = IF job'[j].status = "cancelled" THEN "cancelled" ELSE "open"
  BY DEF Phase
<1>4. Consent(j)' \in BOOLEAN
  BY DEF Consent, Requested
<1>5. Moved(j)
  BY <1>1, <1>2, <1>3, <1>4, Deciding
<1> QED
  BY <1>5, Aside

\* A started execution: the checks of Runnable are the consent.
LEMMA ExecuteAs ==
    ASSUME IInv, NEW j \in Jobs, NEW actor \in Actors, ExecuteProvisionJob(j, actor)
    PROVE  \A k \in Jobs : Moved(k)
<1> USE ProvisionAssumption
<1>1. /\ job[j].status = "approved" /\ job[j].plan > 0 /\ job[j].approver # None
      /\ Live(j) => job[j].approver \notin {job[j].requester, actor}
      /\ UNCHANGED applied
  BY DEF ExecuteProvisionJob, Runnable
<1>2. job[j] \in Job /\ exec[j] = NoExec
  BY <1>1, Rows DEF IInv, ExecOwnsJob
<1>3. CASE Live(j) /\ ~AllowExec
  <2>1. Settle(j, "failed", "error") /\ UNCHANGED daemon
    BY <1>3 DEF ExecuteProvisionJob
  <2>2. /\ job'[j].status = "failed"
        /\ \A k \in Jobs : k # j => job'[k] = job[k]
        /\ job'[j].dry = job[j].dry /\ job'[j].plan = job[j].plan
        /\ job'[j].approver = job[j].approver /\ job'[j].requester = job[j].requester
    BY <1>1, <2>1, StatusOnly DEF Settle, IInv, JobStatus
  <2>3. \A k \in Jobs : exec'[k] = exec[k]
    BY <1>2, <2>1 DEF Settle, IInv, TypeOK
  <2> QED
    BY <1>1, <2>1, <2>2, <2>3, DecisionAs
<1>4. CASE ~(Live(j) /\ ~AllowExec)
  <2> DEFINE new == [runner |-> actor, run |-> runs + 1, step |-> 1,
                     before |-> tenant[job[j].tenant], hung |-> FALSE]
             cmd == [job |-> j, run |-> runs + 1, step |-> 1]
  <2>1. /\ job' = [job EXCEPT ![j].status = "running"]
        /\ exec' = [exec EXCEPT ![j] = new]
        /\ daemon' = daemon \cup {cmd}
    BY <1>4 DEF ExecuteProvisionJob
  <2>2. new # NoExec /\ ~new.hung /\ cmd.job = j /\ cmd.step = 1
    BY ExecuteSafe DEF NoExec
  <2> HIDE DEF new, cmd
  <2>3. /\ job'[j].status = "running"
        /\ \A k \in Jobs : k # j => job'[k] = job[k]
        /\ job'[j].dry = job[j].dry /\ job'[j].plan = job[j].plan
        /\ job'[j].approver = job[j].approver /\ job'[j].requester = job[j].requester
        /\ job'[j].status = "absent" <=> job[j].status = "absent"
    BY <1>1, <2>1, StatusOnly DEF IInv, JobStatus
  <2>4. exec'[j] = new /\ \A k \in Jobs : k # j => exec'[k] = exec[k]
    BY <2>1 DEF IInv, TypeOK
  <2>5. SameRequest(j) /\ Length(j)' = Length(j)
    BY <2>3, RequestAs
  <2>6. Phase(j) = "open" /\ Phase(j)' = "running"
    BY <1>1, <2>2, <2>3, <2>4 DEF Phase
  <2>7. Length(j) > 0 => Consent(j)
    BY <1>1 DEF Length, Consent, Requested
  <2>8. Asked(j)' = Asked(j) \cup (1..Length(j) \cap {1})
    BY <2>1, <2>2, <2>5 DEF Asked
  <2>9. Moved(j)
    BY <1>1, <2>5, <2>6, <2>7, <2>8, ProgressKept, Starting
  <2>10. \A c : c.job # j => (c \in daemon' <=> c \in daemon)
    BY <2>1, <2>2
  <2> QED
    BY <1>1, <2>3, <2>4, <2>9, <2>10, Aside
<1> QED
  BY <1>3, <1>4

\* An execution that nobody waits for any more, or whose client gave up.
LEMMA TimeoutAs ==
    ASSUME IInv, NEW j \in Jobs, ClientTimeout(j)
    PROVE  \A k \in Jobs : Moved(k)
<1>1. /\ exec[j] # NoExec /\ ~exec[j].hung /\ job[j].status = "running"
      /\ job' = [job EXCEPT ![j].status = "failed"]
      /\ exec' = [exec EXCEPT ![j] = NoExec]
      /\ UNCHANGED <<daemon, applied>>
  BY DEF ClientTimeout, Fail, Settle, IInv, ExecOwnsJob
<1>2. /\ job'[j].status = "failed"
      /\ \A k \in Jobs : k # j => job'[k] = job[k]
      /\ job'[j].dry = job[j].dry /\ job'[j].plan = job[j].plan
      /\ job'[j].approver = job[j].approver /\ job'[j].requester = job[j].requester
      /\ job'[j].status = "absent" <=> job[j].status = "absent"
  BY <1>1, StatusOnly DEF IInv, JobStatus
<1>3. exec'[j] = NoExec /\ \A k \in Jobs : k # j => exec'[k] = exec[k]
  BY <1>1 DEF IInv, TypeOK
<1>4. SameRequest(j) /\ Length(j)' = Length(j)
  BY <1>2, RequestAs
<1>5. Phase(j) = "running" /\ Phase(j)' = "open"
  BY <1>1, <1>2 DEF Phase
<1>6. SameMachine(j)
  BY <1>1, <1>4, AskedAs, ProgressKept DEF SameMachine
<1>7. Moved(j)
  BY <1>4, <1>5, <1>6, Ending
<1> QED
  BY <1>1, <1>2, <1>3, <1>7, Aside

\* The server dies: every execution is lost at once.
LEMMA CrashAs ==
    ASSUME IInv, Crash
    PROVE  \A k \in Jobs : Moved(k)
<1> SUFFICES ASSUME NEW k \in Jobs PROVE Moved(k)
  OBVIOUS
<1>1. UNCHANGED <<job, daemon, applied>> /\ exec'[k] = NoExec
  BY DEF Crash
<1>2. SameRequest(k) /\ Length(k)' = Length(k)
  BY <1>1, RequestAs
<1>3. SameMachine(k)
  BY <1>1, <1>2, AskedAs, ProgressKept DEF SameMachine
<1>4. CASE exec[k] # NoExec /\ ~exec[k].hung
  <2>1. Phase(k) = "running" /\ Phase(k)' = "stranded"
    BY <1>1, <1>4 DEF Phase, IInv, ExecOwnsJob
  <2> QED
    BY <1>2, <1>3, <2>1, Ending
<1>5. CASE ~(exec[k] # NoExec /\ ~exec[k].hung)
  <2>1. Phase(k)' = Phase(k)
    BY <1>1, <1>5 DEF Phase
  <2> QED
    BY <1>2, <1>3, <2>1, Resting
<1> QED
  BY <1>4, <1>5

---------------------------------------------------------------------------
(* The answers of the daemon *)

\* The step of a command of a live job is one the machine was asked for; of a
\* dry run it is not asked anything.
LEMMA CommandAs ==
    ASSUME IInv, NEW c \in daemon
    PROVE  /\ c.job \in Jobs
           /\ Live(c.job) => c.step \in 1..Length(c.job) /\ c.step \in Asked(c.job)
                             /\ Length(c.job) = job[c.job].plan
           /\ ~Live(c.job) => Length(c.job) = 0 /\ Asked(c.job) = {}
<1> USE ProvisionAssumption
<1>1. /\ c.job \in Jobs /\ c.step \in 1..PlanLength
      /\ job[c.job].plan \in 0..PlanLength /\ c.step <= job[c.job].plan
      /\ job[c.job].status # "absent"
  BY CommandFacts DEF PlanSteps, IInv, CommandsPlanned
<1>2. Length(c.job) = IF Live(c.job) THEN job[c.job].plan ELSE 0
  BY <1>1 DEF Length, Requested
<1>3. Live(c.job) => c.step \in 1..Length(c.job)
  BY <1>1, <1>2
<1>4. ~Live(c.job) => Asked(c.job) = {}
  BY <1>2 DEF Asked
<1> QED
  BY <1>1, <1>2, <1>3, <1>4 DEF Asked

\* The command leaves the daemon; new commands of the same job may follow it.
LEMMA AnsweredAs ==
    ASSUME IInv, NEW c \in daemon, Live(c.job), Length(c.job)' = Length(c.job),
           NEW N, daemon' = (daemon \ {c}) \cup N, \A d \in N : d.job = c.job,
           NEW next \in SUBSET (1..Length(c.job)), next = {d.step : d \in N}
    PROVE  Answered(c.job, c.step, next)
<1>1. c.step \in Asked(c.job)
  BY CommandAs
<1>2. Asked(c.job)' = next \cup {s \in 1..Length(c.job) :
                                   \E d \in daemon \ {c} : d.job = c.job /\ d.step = s}
  BY DEF Asked
<1>3. CASE \E d \in daemon \ {c} : d.job = c.job /\ d.step = c.step
  <2>1. Asked(c.job)' = Asked(c.job) \cup next
    BY <1>2, <1>3 DEF Asked
  <2> QED
    BY <1>1, <2>1 DEF Answered
<1>4. CASE ~\E d \in daemon \ {c} : d.job = c.job /\ d.step = c.step
  <2>1. Asked(c.job)' = (Asked(c.job) \ {c.step}) \cup next
    BY <1>2, <1>4 DEF Asked
  <2> QED
    BY <1>1, <2>1 DEF Answered
<1> QED
  BY <1>3, <1>4

\* What a step carried out, or pretended, does to the work on the machine.
LEMMA WorkAs ==
    ASSUME IInv, AppliedInOrder, NEW c \in daemon,
           applied' = IF Live(c.job) THEN [applied EXCEPT ![c.job] = @ \cup {c.step}]
                      ELSE applied
    PROVE  /\ Live(c.job) => CarriedOut(c.job, c.step)
           /\ ~Live(c.job) => Progress(c.job)' = Progress(c.job)
           /\ \A k \in Jobs : k # c.job => applied'[k] = applied[k]
<1>1. CASE Live(c.job)
  BY <1>1, ProgressGrows DEF CarriedOut
<1>2. CASE ~Live(c.job)
  BY <1>2, CommandFacts, ProgressKept
<1> QED
  BY <1>1, <1>2

\* The answer ends the execution of its job or touches it not at all.
LEMMA UnheardAs ==
    ASSUME IInv, AppliedInOrder, NEW c \in daemon, daemon' = daemon \ {c},
           Length(c.job)' = Length(c.job), SameRequest(c.job),
           (Live(c.job) /\ CarriedOut(c.job, c.step)) \/ Progress(c.job)' = Progress(c.job),
           \/ Phase(c.job)' = Phase(c.job)
           \/ Phase(c.job) = "running" /\ Phase(c.job)' = "open"
              /\ Progress(c.job)' = Progress(c.job)
           \/ Phase(c.job) = "running" /\ Phase(c.job)' = "stranded"
    PROVE  Moved(c.job)
<1>1. CASE Live(c.job)
  <2>1. Answered(c.job, c.step, {})
    <3>1. daemon' = (daemon \ {c}) \cup {} /\ {} = {d.step : d \in {}}
      OBVIOUS
    <3> QED
      BY <1>1, <3>1, AnsweredAs
  <2> QED
    BY <1>1, <2>1, CommandAs, Answering
<1>2. CASE ~Live(c.job)
  <2>1. Asked(c.job)' = Asked(c.job)
    BY <1>2, CommandAs DEF Asked
  <2> QED
    BY <1>2, <2>1, CommandAs, Ending, Resting DEF SameMachine
<1> QED
  BY <1>1, <1>2

\* The row and the execution of a job after Settle.
LEMMA SettleAs ==
    ASSUME IInv, NEW j \in Jobs, NEW status \in {"completed", "failed"}, NEW ts,
           exec[j] # NoExec, ~exec[j].hung, Settle(j, status, ts)
    PROVE  /\ Phase(j) = "running"
           /\ Phase(j)' = IF status = "completed" THEN "completed" ELSE "open"
           /\ SameRequest(j) /\ Length(j)' = Length(j)
           /\ \A k \in Jobs : k # j => job'[k] = job[k] /\ exec'[k] = exec[k]
<1>1. /\ job[j].status = "running"
      /\ job' = [job EXCEPT ![j].status = status]
      /\ exec' = [exec EXCEPT ![j] = NoExec]
  BY DEF Settle, IInv, ExecOwnsJob
<1>2. /\ job'[j].status = status
      /\ \A k \in Jobs : k # j => job'[k] = job[k]
      /\ job'[j].dry = job[j].dry /\ job'[j].plan = job[j].plan
      /\ job'[j].approver = job[j].approver /\ job'[j].requester = job[j].requester
      /\ job'[j].status = "absent" <=> job[j].status = "absent"
  BY <1>1, StatusOnly DEF IInv, JobStatus
<1>3. exec'[j] = NoExec /\ \A k \in Jobs : k # j => exec'[k] = exec[k]
  BY <1>1 DEF IInv, TypeOK
<1>4. SameRequest(j) /\ Length(j)' = Length(j)
  BY <1>2, RequestAs
<1> QED
  BY <1>1, <1>2, <1>3, <1>4 DEF Phase

\* An answer that changes neither the row nor what is waited for.
LEMMA RowKeptAs ==
    ASSUME NEW j \in Jobs, job'[j] = job[j]
    PROVE  SameRequest(j) /\ Length(j)' = Length(j)
BY RequestAs

\* Other jobs do not notice an answer.
LEMMA OthersAs ==
    ASSUME NEW j \in Jobs, Moved(j),
           \A d : d.job # j => (d \in daemon' <=> d \in daemon),
           \A k \in Jobs : k # j => job'[k] = job[k] /\ exec'[k] = exec[k],
           \A k \in Jobs : k # j => applied'[k] = applied[k]
    PROVE  \A k \in Jobs : Moved(k)
BY Aside

\* The loop goes on with the next step.
LEMMA NextStepAs ==
    ASSUME IInv, AppliedInOrder, NEW c \in daemon, Awaits(c), c.step < job[c.job].plan,
           applied' = IF Live(c.job) THEN [applied EXCEPT ![c.job] = @ \cup {c.step}]
                      ELSE applied,
           StepDone(c), UNCHANGED <<runs, crashes>>
    PROVE  \A k \in Jobs : Moved(k)
<1> USE ProvisionAssumption
<1>1. c \in Command /\ c.job \in Jobs /\ c.step \in Nat /\ c.step + 1 \in 1..job[c.job].plan
  BY CommandFacts DEF PlanSteps
<1>2. exec[c.job] \in Exec /\ exec[c.job] # NoExec /\ ~exec[c.job].hung
  BY <1>1, Rows DEF Awaits, IInv
<1> DEFINE e == [exec[c.job] EXCEPT !.step = @ + 1]
           d == [c EXCEPT !.step = @ + 1]
<1>3. /\ exec' = [exec EXCEPT ![c.job] = e]
      /\ daemon' = (daemon \ {c}) \cup {d}
      /\ job' = job
  BY DEF StepDone
<1>4. e.hung = exec[c.job].hung /\ d.job = c.job /\ d.step = c.step + 1
  BY <1>1, <1>2 DEF Exec, Command
<1> HIDE DEF e, d
<1>5. exec'[c.job] = e /\ \A k \in Jobs : k # c.job => exec'[k] = exec[k]
  BY <1>1, <1>3 DEF IInv, TypeOK
<1>6. exec'[c.job] # NoExec
  <2>1. e \in Exec
    BY <1>1, <1>2, CommandFacts DEF e, Exec, Awaits, PlanSteps
  <2> QED
    BY <1>5, <2>1 DEF Exec, NoExec
<1>7. Phase(c.job) = "running" /\ Phase(c.job)' = "running"
  BY <1>1, <1>2, <1>3, <1>4, <1>5, <1>6 DEF Phase, IInv, ExecOwnsJob
<1>8. SameRequest(c.job) /\ Length(c.job)' = Length(c.job)
  BY <1>1, <1>3, RowKeptAs
<1>9. Moved(c.job)
  <2>1. CASE Live(c.job)
    <3>1. /\ c.step \in 1..Length(c.job) /\ c.step < Length(c.job)
          /\ c.step + 1 \in 1..Length(c.job)
      BY <1>1, <2>1, CommandAs
    <3>2. {c.step + 1} = {x.step : x \in {d}}
      BY <1>4
    <3>3. Answered(c.job, c.step, {c.step + 1})
      BY <1>3, <1>4, <1>8, <2>1, <3>1, <3>2, AnsweredAs
    <3> QED
      BY <1>1, <1>7, <1>8, <2>1, <3>1, <3>3, WorkAs, Advancing
  <2>2. CASE ~Live(c.job)
    <3>1. Asked(c.job)' = Asked(c.job)
      BY <1>8, <2>2, CommandAs DEF Asked
    <3> QED
      BY <1>1, <1>7, <1>8, <2>2, <3>1, WorkAs, Resting DEF SameMachine
  <2> QED
    BY <2>1, <2>2
<1>10. \A x : x.job # c.job => (x \in daemon' <=> x \in daemon)
  BY <1>3, <1>4
<1>11. \A k \in Jobs : k # c.job => applied'[k] = applied[k]
  BY WorkAs
<1> QED
  BY <1>1, <1>3, <1>5, <1>9, <1>10, <1>11, OthersAs

\* The last step completes the job.
LEMMA LastStepAs ==
    ASSUME IInv, AppliedInOrder, NEW c \in daemon, Awaits(c), ~(c.step < job[c.job].plan),
           applied' = IF Live(c.job) THEN [applied EXCEPT ![c.job] = @ \cup {c.step}]
                      ELSE applied,
           StepDone(c), UNCHANGED <<runs, crashes>>
    PROVE  \A k \in Jobs : Moved(k)
<1> USE ProvisionAssumption
<1>1. /\ c.job \in Jobs /\ c.step = job[c.job].plan /\ c.step \in Nat
      /\ exec[c.job] # NoExec /\ ~exec[c.job].hung
  BY CommandFacts DEF PlanSteps, Awaits
<1>2. Settle(c.job, "completed", CompletedStatus(c.job)) /\ daemon' = daemon \ {c}
  BY DEF StepDone
<1>3. /\ Phase(c.job) = "running" /\ Phase(c.job)' = "completed"
      /\ SameRequest(c.job) /\ Length(c.job)' = Length(c.job)
      /\ \A k \in Jobs : k # c.job => job'[k] = job[k] /\ exec'[k] = exec[k]
  BY <1>1, <1>2, SettleAs
<1>4. Moved(c.job)
  <2>1. CASE Live(c.job)
    <3>1. c.step \in 1..Length(c.job) /\ c.step = Length(c.job)
      BY <1>1, <2>1, CommandAs
    <3>2. Answered(c.job, c.step, {})
      <4>1. daemon' = (daemon \ {c}) \cup {} /\ {} = {d.step : d \in {}}
        BY <1>2
      <4> QED
        BY <1>3, <2>1, <4>1, AnsweredAs
    <3>3. Progress(c.job)' = Length(c.job)
      <4>1. /\ Progress(c.job)' \in Nat /\ applied'[c.job] = 1..Progress(c.job)'
            /\ Progress(c.job)' >= c.step
        <5>1. Progress(c.job) \in Nat
          BY <1>1 DEF AppliedInOrder
        <5>2. /\ Progress(c.job)' = IF c.step > Progress(c.job) THEN c.step ELSE Progress(c.job)
              /\ applied'[c.job] = 1..Progress(c.job)'
          BY <2>1, ProgressGrows
        <5> QED
          BY <1>1, <5>1, <5>2
      <4>2. \A s \in applied'[c.job] : s <= c.step
        BY <1>1, <2>1, AppliedGrows
      <4>3. Progress(c.job)' > 0 => Progress(c.job)' \in applied'[c.job]
        BY <4>1
      <4> QED
        BY <1>1, <3>1, <4>1, <4>2, <4>3
    <3> QED
      BY <1>1, <1>3, <2>1, <3>1, <3>2, <3>3, WorkAs, Advancing
  <2>2. CASE ~Live(c.job)
    <3>1. Asked(c.job)' = Asked(c.job) /\ Length(c.job) = 0
      BY <1>3, <2>2, CommandAs DEF Asked
    <3> QED
      BY <1>1, <1>3, <2>2, <3>1, WorkAs, Ending DEF SameMachine
  <2> QED
    BY <2>1, <2>2
<1>5. \A x : x.job # c.job => (x \in daemon' <=> x \in daemon)
  BY <1>2
<1>6. \A k \in Jobs : k # c.job => applied'[k] = applied[k]
  BY WorkAs
<1> QED
  BY <1>1, <1>3, <1>4, <1>5, <1>6, OthersAs

\* A command that leaves the daemon and starts no other.
LEMMA LeavesAs ==
    ASSUME IInv, AppliedInOrder, NEW c \in daemon, daemon' = daemon \ {c},
           SameRequest(c.job), Length(c.job)' = Length(c.job),
           \/ UNCHANGED applied
           \/ Live(c.job) /\ applied' = [applied EXCEPT ![c.job] = @ \cup {c.step}],
           \/ Phase(c.job)' = Phase(c.job)
           \/ Phase(c.job) = "running" /\ Phase(c.job)' = "open" /\ UNCHANGED applied
           \/ Phase(c.job) = "running" /\ Phase(c.job)' = "stranded",
           \A k \in Jobs : k # c.job => job'[k] = job[k] /\ exec'[k] = exec[k]
    PROVE  \A k \in Jobs : Moved(k)
<1>1. c.job \in Jobs
  BY CommandFacts
<1>2. /\ (Live(c.job) /\ CarriedOut(c.job, c.step)) \/ Progress(c.job)' = Progress(c.job)
      /\ UNCHANGED applied => Progress(c.job)' = Progress(c.job)
      /\ \A k \in Jobs : k # c.job => applied'[k] = applied[k]
  BY <1>1, ProgressGrows, ProgressKept DEF CarriedOut
<1>3. Moved(c.job)
  BY <1>2, UnheardAs
<1>4. \A x : x.job # c.job => (x \in daemon' <=> x \in daemon)
  OBVIOUS
<1> QED
  BY <1>1, <1>2, <1>3, <1>4, OthersAs

LEMMA DaemonAs ==
    ASSUME IInv, AppliedInOrder, NEW c \in daemon,
           DaemonSucceeds(c) \/ DaemonFails(c) \/ DaemonDies(c)
    PROVE  \A k \in Jobs : Moved(k)
<1>1. c.job \in Jobs
  BY CommandFacts
<1>2. CASE DaemonSucceeds(c) /\ Awaits(c)
  <2>1. /\ applied' = IF Live(c.job) THEN [applied EXCEPT ![c.job] = @ \cup {c.step}]
                      ELSE applied
        /\ StepDone(c) /\ UNCHANGED <<runs, crashes>>
    BY <1>2 DEF DaemonSucceeds
  <2> QED
    BY <1>2, <2>1, NextStepAs, LastStepAs
<1>3. CASE DaemonSucceeds(c) /\ ~Awaits(c)
  <2>1. /\ daemon' = daemon \ {c} /\ job' = job /\ exec' = exec
        /\ \/ UNCHANGED applied
           \/ Live(c.job) /\ applied' = [applied EXCEPT ![c.job] = @ \cup {c.step}]
    BY <1>3 DEF DaemonSucceeds
  <2>2. SameRequest(c.job) /\ Length(c.job)' = Length(c.job) /\ Phase(c.job)' = Phase(c.job)
    BY <1>1, <2>1, RowKeptAs DEF Phase
  <2> QED
    BY <2>1, <2>2, LeavesAs
<1>4. CASE DaemonFails(c) /\ Awaits(c)
  <2>1. /\ daemon' = daemon \ {c} /\ UNCHANGED applied
        /\ Settle(c.job, "failed", "error") /\ exec[c.job] # NoExec /\ ~exec[c.job].hung
    BY <1>4 DEF DaemonFails, Fail, Awaits
  <2>2. /\ Phase(c.job) = "running" /\ Phase(c.job)' = "open"
        /\ SameRequest(c.job) /\ Length(c.job)' = Length(c.job)
        /\ \A k \in Jobs : k # c.job => job'[k] = job[k] /\ exec'[k] = exec[k]
    BY <1>1, <2>1, SettleAs
  <2> QED
    BY <2>1, <2>2, LeavesAs
<1>5. CASE DaemonFails(c) /\ ~Awaits(c)
  <2>1. daemon' = daemon \ {c} /\ job' = job /\ exec' = exec /\ UNCHANGED applied
    BY <1>5 DEF DaemonFails
  <2>2. SameRequest(c.job) /\ Length(c.job)' = Length(c.job) /\ Phase(c.job)' = Phase(c.job)
    BY <1>1, <2>1, RowKeptAs DEF Phase
  <2> QED
    BY <2>1, <2>2, LeavesAs
<1>6. CASE DaemonDies(c)
  <2>1. /\ daemon' = daemon \ {c} /\ job' = job
        /\ exec' = IF Awaits(c) THEN [exec EXCEPT ![c.job].hung = TRUE] ELSE exec
        /\ \/ UNCHANGED applied
           \/ Live(c.job) /\ applied' = [applied EXCEPT ![c.job] = @ \cup {c.step}]
    BY <1>6 DEF DaemonDies
  <2>2. SameRequest(c.job) /\ Length(c.job)' = Length(c.job)
    BY <1>1, <2>1, RowKeptAs
  <2>3. \A k \in Jobs : k # c.job => job'[k] = job[k] /\ exec'[k] = exec[k]
    BY <2>1 DEF IInv, TypeOK
  <2>4. CASE Awaits(c)
    <3>1. exec[c.job] \in Exec /\ exec[c.job] # NoExec /\ ~exec[c.job].hung
      BY <1>1, <2>4, Rows DEF Awaits, IInv
    <3> DEFINE e == [exec[c.job] EXCEPT !.hung = TRUE]
    <3>2. e.hung
      BY <3>1 DEF Exec
    <3>3. exec' = [exec EXCEPT ![c.job] = e]
      BY <2>1, <2>4
    <3> HIDE DEF e
    <3>4. exec'[c.job].hung
      BY <1>1, <3>2, <3>3 DEF IInv, TypeOK
    <3>5. Phase(c.job) = "running" /\ Phase(c.job)' = "stranded"
      BY <1>1, <2>1, <3>1, <3>4 DEF Phase, IInv, ExecOwnsJob
    <3> QED
      BY <2>1, <2>2, <2>3, <3>5, LeavesAs
  <2>5. CASE ~Awaits(c)
    <3>1. Phase(c.job)' = Phase(c.job)
      BY <2>1, <2>5 DEF Phase
    <3> QED
      BY <2>1, <2>2, <2>3, <3>1, LeavesAs
  <2> QED
    BY <2>4, <2>5
<1> QED
  BY <1>2, <1>3, <1>4, <1>5, <1>6

LEMMA AdminAs ==
    ASSUME IInv, NEW j \in Jobs,
           (\E actor \in Actors : Approve(j, actor)) \/ Reject(j) \/ Cancel(j)
    PROVE  \A k \in Jobs : Moved(k)
<1>1. CASE \E actor \in Actors : Approve(j, actor)
  <2>1. PICK actor \in Actors : Approve(j, actor)
    BY <1>1
  <2>2. /\ job[j].status \in {"queued", "approved", "failed", "rejected"}
        /\ job' = [job EXCEPT ![j] = [job[j] EXCEPT !.status = "approved", !.approver = actor]]
        /\ exec' = exec /\ daemon' = daemon /\ applied' = applied
    BY <2>1 DEF Approve, IInv, TypeOK, Job, NoJob
  <2>3. job[j] \in Job
    BY <2>2, Rows DEF IInv
  <2> DEFINE row == [job[j] EXCEPT !.status = "approved", !.approver = actor]
  <2>4. /\ row.status = "approved" /\ row.dry = job[j].dry /\ row.plan = job[j].plan
        /\ row.requester = job[j].requester
    BY <2>3 DEF Job
  <2>5. job' = [job EXCEPT ![j] = row]
    BY <2>2
  <2> HIDE DEF row
  <2>6. job'[j] = row /\ \A k \in Jobs : k # j => job'[k] = job[k]
    BY <2>5 DEF IInv, TypeOK
  <2> QED
    BY <2>2, <2>4, <2>6, DecisionAs
<1>2. CASE Reject(j) \/ Cancel(j)
  <2>1. PICK status \in {"rejected", "cancelled"} :
          /\ job[j].status \in {"queued", "approved", "failed", "rejected"}
          /\ job' = [job EXCEPT ![j].status = status]
          /\ exec' = exec /\ daemon' = daemon /\ applied' = applied
    BY <1>2 DEF Reject, Cancel, SetStatus
  <2>2. /\ job'[j].status = status
        /\ \A k \in Jobs : k # j => job'[k] = job[k]
        /\ job'[j].dry = job[j].dry /\ job'[j].plan = job[j].plan
        /\ job'[j].approver = job[j].approver /\ job'[j].requester = job[j].requester
    BY <2>1, StatusOnly DEF IInv, JobStatus
  <2> QED
    BY <2>1, <2>2, DecisionAs
<1> QED
  BY <1>1, <1>2

LEMMA EveryJobMoves == IInv /\ AppliedInOrder /\ [Next]_vars => \A k \in Jobs : Moved(k)
<1> SUFFICES ASSUME IInv, AppliedInOrder, [Next]_vars PROVE \A k \in Jobs : Moved(k)
  OBVIOUS
<1>1. CASE UNCHANGED vars
  BY <1>1, Aside DEF vars
<1>2. ASSUME NEW t \in Tenants, NEW j \in Jobs, NEW actor \in Actors, NEW dry \in BOOLEAN,
             \/ CreateTenantAndBootstrapJob(t, j, dry, actor)
             \/ CreateTenantDecommissionJob(t, j, dry, actor)
             \/ \E type \in JobType, plan \in {0, PlanLength}, requestDry, complete \in BOOLEAN :
                  QueueJob(t, j, type, dry, actor, plan, requestDry, complete)
      PROVE  \A k \in Jobs : Moved(k)
  <2>1. 0 \in 0..PlanLength /\ PlanLength \in 0..PlanLength
    BY ProvisionAssumption
  <2> QED
    BY <1>2, <2>1, QueueAs
       DEF CreateTenantAndBootstrapJob, CreateTenantDecommissionJob, QueueJob
<1>3. ASSUME NEW j \in Jobs,
             \/ \E actor \in Actors : Approve(j, actor) \/ ExecuteProvisionJob(j, actor)
             \/ Reject(j) \/ Cancel(j) \/ ClientTimeout(j)
      PROVE  \A k \in Jobs : Moved(k)
  BY <1>3, AdminAs, ExecuteAs, TimeoutAs
<1> QED
  BY <1>1, <1>2, <1>3, DaemonAs, CrashAs DEF Next

LEMMA StartsUnrequested == Init => Promised!Init
<1> SUFFICES ASSUME Init PROVE Promised!Init
  OBVIOUS
<1>1. \A j \in Jobs : /\ Phase(j) = "none" /\ Length(j) = 0 /\ Consent(j) = FALSE
                      /\ Asked(j) = {} /\ Progress(j) = 0
  <2> SUFFICES ASSUME NEW j \in Jobs
               PROVE  /\ Phase(j) = "none" /\ Length(j) = 0 /\ Consent(j) = FALSE
                      /\ Asked(j) = {} /\ Progress(j) = 0
    OBVIOUS
  <2>1. job[j].status = "absent" /\ daemon = {}
    BY DEF Init, NoJob
  <2>2. applied[j] = 1..0 /\ 0 \in 0..PlanLength
    BY ProvisionAssumption DEF Init
  <2> QED
    BY <2>1, <2>2, ProgressIs DEF Phase, Length, Consent, Requested, Asked, Progress
<1> QED
  BY <1>1 DEF Promised!Init

LEMMA EveryMovePromised == (\A k \in Jobs : Moved(k)) => Promised!Next
<1> SUFFICES ASSUME \A k \in Jobs : Moved(k), NEW c \in Jobs
             PROVE  \/ Promised!Request(c) \/ Promised!Review(c) \/ Promised!Withdraw(c)
                    \/ Promised!Start(c) \/ Promised!GiveUp(c) \/ Promised!Rehearsed(c)
                    \/ \E s \in 1..[j \in Jobs |-> Length(j)][c] :
                         \/ Promised!NextStep(c, s) \/ Promised!LastStep(c, s)
                         \/ Promised!OtherAnswer(c, s)
                    \/ /\ [j \in Jobs |-> Phase(j)]'[c] = [j \in Jobs |-> Phase(j)][c]
                       /\ Promised!RequestKept(c) /\ Promised!MachineKept(c)
  BY DEF Promised!Next
<1> QED
  BY DEF Moved, SameRequest, SameMachine, Promised!RequestKept, Promised!MachineKept

\* Whatever admins, executions, the daemon, timeouts and crashes do, and in
\* whatever order answers come, provisioning makes the changes ApprovedChanges
\* promises: a live job starts only with a second person's approval, which
\* nobody changes while it runs; the machine goes through the plan step by
\* step across all attempts; only a whole plan is reported completed.
THEOREM ApprovedChangesImplemented == Spec => ImplementsApprovedChanges
<1>1. Init => Promised!Init
  BY StartsUnrequested
<1>2. IInv /\ AppliedInOrder /\ [Next]_vars => [Promised!Next]_(Promised!changes)
  BY EveryJobMoves, EveryMovePromised
<1> QED
  BY <1>1, <1>2, Inductive, InOrder, PTL DEF Spec, ImplementsApprovedChanges, Promised!Spec
=============================================================================
