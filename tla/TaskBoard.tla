------------------------------ MODULE TaskBoard ------------------------------
(***************************************************************************)
(* The tasks table and everything that writes to it: the routes under      *)
(* src/app/api/tasks and src/app/api/projects, quality reviews, pipeline   *)
(* runs, GitHub imports, and src/lib/conductor-sync.ts, which copies the   *)
(* task file of an external process, the Conductor, to the board.          *)
(*                                                                         *)
(* Every handler is one synchronous block, so an action is a request.  The *)
(* synchronisation is synchronous too, but the Conductor may write its     *)
(* file between the stat and the read.                                     *)
(***************************************************************************)
EXTENDS Naturals, FiniteSets

CONSTANTS
    Tasks,        \* rows of tasks; the id of a deleted row may come again
    Agents,
    Projects,
    General,      \* the default project
    Company,      \* the project of the Conductor's company
    Keys,         \* tasks of the Conductor, conductor_id in metadata
    None,         \* NULL
    Unset,        \* a field that is missing in a request
    Requested,    \* statuses requests ask for
    Reported,     \* statuses the Conductor reports
    MaxOps,       \* bound: requests in a behaviour
    MaxVersions   \* bound: writes of the task file in a behaviour

Status == {"inbox", "assigned", "in_progress", "review", "quality_review", "done"}

StatusMap == [queued |-> "inbox", running |-> "in_progress", pr_open |-> "review",
              reviewing |-> "review", ready |-> "quality_review", merged |-> "done",
              failed |-> "in_progress", cancelled |-> "done"]

ASSUME TaskAssumption ==
    /\ {General, Company} \subseteq Projects
    /\ General # Company
    /\ None \notin Agents \cup Projects \cup Keys
    /\ Unset \notin Agents \cup Projects \cup Keys \cup Status \cup {None}
    /\ Requested \subseteq Status
    /\ Reported \subseteq DOMAIN StatusMap
    /\ MaxOps \in Nat
    /\ MaxVersions \in Nat

VARIABLES
    task,      \* the tasks table
    reviews,   \* the reviews by Aegis of the latest second that has one
    project,   \* the projects table
    ops,       \* requests so far
    file,      \* active-tasks.json
    stat,      \* stamp of the file a synchronisation has taken, or Unset
    hash,      \* lastSyncHash, 0 when empty
    imported,  \* version of the file that was last read (history)
    unread     \* version of the file whose reading failed last (history)

board == <<task, reviews, project>>
sync == <<stat, hash, imported, unread>>
vars == <<board, ops, file, sync>>

\* moved: the row was put into its project when another was deleted (history).
\* ticket: project_ticket_no, 0 when NULL.  written: a request changed or set the
\* key, the synchronisation alone did not (history).
Task == [status : Status, agent : Agents \cup {None}, project : Projects \cup {None},
         ticket : 0..MaxOps, key : Keys \cup {None}, moved : BOOLEAN, written : BOOLEAN]
NoTask == [none |-> TRUE]

Project == [status : {"absent", "active", "archived"}, counter : 0..MaxOps]
NoProject == [status |-> "absent", counter |-> 0]

File == [version : 0..MaxVersions, torn : BOOLEAN, tasks : [Keys -> Reported \cup {None}]]

TypeOK ==
    /\ task \in [Tasks -> Task \cup {NoTask}]
    /\ reviews \in [Tasks -> SUBSET {"approved", "rejected"}]
    /\ project \in [Projects -> Project]
    /\ ops \in 0..MaxOps
    /\ file \in File
    /\ stat \in 1..MaxVersions \cup {Unset}
    /\ hash \in 0..MaxVersions
    /\ imported \in 0..MaxVersions
    /\ unread \in 0..MaxVersions

Init ==
    /\ task = [t \in Tasks |-> NoTask]
    /\ reviews = [t \in Tasks |-> {}]
    /\ project = [p \in Projects |->
                    IF p = General THEN [status |-> "active", counter |-> 0] ELSE NoProject]
    /\ ops = 0
    /\ file = [version |-> 0, torn |-> FALSE, tasks |-> [k \in Keys |-> None]]
    /\ stat = Unset
    /\ hash = 0
    /\ imported = 0
    /\ unread = 0

Rows == {t \in Tasks : task[t] # NoTask}

---------------------------------------------------------------------------
(* Tickets and the quality gate *)

\* The next ticket of a project.
Ticket(p) == project[p].counter + 1
Allocate(p) == [project EXCEPT ![p].counter = Ticket(p)]

\* The latest review decides; among reviews of the same second any may be
\* taken for the latest one.
HasAegisApproval(t) == "approved" \in reviews[t]

GatePassed(t, status) == status = "done" => HasAegisApproval(t)

---------------------------------------------------------------------------
(* POST /api/tasks, GET /api/tasks/queue, PUT and DELETE /api/tasks/[id] *)

NormalizeCreate(status, agent) ==
    IF status = "inbox" /\ agent # None THEN "assigned" ELSE status

\* An archived or unknown project is replaced by the default one.
ResolveProject(p) ==
    IF p \in Projects /\ project[p].status = "active" THEN p ELSE General

\* key: the conductor_id of the metadata, which are the client's own.
CreateTask(t, status, agent, p, key) ==
    /\ t \notin Rows
    /\ LET q == ResolveProject(p)
       IN  /\ task' = [task EXCEPT ![t] =
                         [status |-> NormalizeCreate(status, agent), agent |-> agent,
                          project |-> q, ticket |-> Ticket(q), key |-> key,
                          moved |-> FALSE, written |-> key # None]]
           /\ project' = Allocate(q)
    /\ UNCHANGED reviews

ImportIssueRaw(t, closed, agent) ==  \* mutant: the state of the issue is the status
    /\ t \notin Rows
    /\ task' = [task EXCEPT ![t] =
                  [status |-> IF closed THEN "closed" ELSE "inbox", agent |-> agent,
                   project |-> None, ticket |-> 0, key |-> None, moved |-> FALSE,
                   written |-> FALSE]]
    /\ UNCHANGED <<reviews, project>>

\* POST /api/github: an issue becomes a task without project and ticket.
ImportIssue(t, closed, agent) ==
    /\ t \notin Rows
    /\ task' = [task EXCEPT ![t] =
                  [status |-> IF closed THEN "done" ELSE "inbox", agent |-> agent,
                   project |-> None, ticket |-> 0, key |-> None, moved |-> FALSE,
                   written |-> FALSE]]
    /\ UNCHANGED <<reviews, project>>

\* What updateTaskSchema makes of a status: the defaults of createTaskSchema
\* apply to missing fields.
ParsedStatus(status) == IF status = Unset THEN "inbox" ELSE status

NormalizeUpdate(current, status, agent) ==
    CASE status # Unset -> status
      [] status = Unset /\ agent \in Agents /\ current = "inbox" -> "assigned"
      [] status = Unset /\ agent = None /\ current = "assigned" -> "inbox"
      [] OTHER -> current

\* The metadata of the request replace those of the row, conductor_id included;
\* their default is empty.
UpdateTask(t, status, agent, p, key) ==
    /\ t \in Rows
    /\ LET old == task[t]
           new == NormalizeUpdate(old.status, ParsedStatus(status), agent)
           moves == p \notin {Unset, old.project}
       IN  /\ GatePassed(t, new)
           /\ p # Unset => project[p].status = "active"
           /\ task' = [task EXCEPT ![t] =
                [status  |-> new,
                 agent   |-> IF agent = Unset THEN old.agent ELSE agent,
                 project |-> IF p = Unset THEN old.project ELSE p,
                 ticket  |-> IF moves THEN Ticket(p) ELSE old.ticket,
                 key     |-> key,
                 moved   |-> old.moved /\ ~moves,
                 written |-> old.written \/ key # old.key]]
           /\ project' = IF moves THEN Allocate(p) ELSE project
    /\ UNCHANGED reviews

DeleteTask(t) ==
    /\ t \in Rows
    /\ task' = [task EXCEPT ![t] = NoTask]
    /\ reviews' = [reviews EXCEPT ![t] = {}]
    /\ UNCHANGED project

BulkUpdateFirst(move) ==  \* mutant: the gate is checked for one of the tasks
    LET found == DOMAIN move \cap Rows
    IN  /\ found # {} => \E t \in found : GatePassed(t, move[t])
        /\ task' = [t \in Tasks |->
                      IF t \in found THEN [task[t] EXCEPT !.status = move[t]] ELSE task[t]]
        /\ UNCHANGED <<reviews, project>>

\* PUT /api/tasks: all the moves of the request, or none.
BulkUpdate(move) ==
    LET found == DOMAIN move \cap Rows
    IN  /\ \A t \in found : GatePassed(t, move[t])
        /\ task' = [t \in Tasks |->
                      IF t \in found THEN [task[t] EXCEPT !.status = move[t]] ELSE task[t]]
        /\ UNCHANGED <<reviews, project>>

\* An agent that works on a task gets no other one; which of the tasks it may
\* take comes first is left open.
PollQueue(agent) ==
    /\ \A t \in Rows : ~(task[t].agent = agent /\ task[t].status = "in_progress")
    /\ \E t \in Rows :
         /\ task[t].status \in {"assigned", "inbox"}
         /\ task[t].agent \in {None, agent}
         /\ task' = [task EXCEPT ![t].status = "in_progress", ![t].agent = agent]
    /\ UNCHANGED <<reviews, project>>

---------------------------------------------------------------------------
(* Reviews, pipeline runs, projects *)

\* POST /api/quality-review by Aegis.  sameSecond: its last review has the
\* same created_at.
AegisReview(t, verdict, sameSecond) ==
    /\ t \in Rows
    /\ sameSecond => reviews[t] # {}
    /\ reviews' = [reviews EXCEPT ![t] = (IF sameSecond THEN @ ELSE {}) \cup {verdict}]
    /\ task' = IF verdict = "approved" THEN [task EXCEPT ![t].status = "done"] ELSE task
    /\ UNCHANGED project

\* A pipeline run linked to the task starts, fails, or finishes.
PipelineMoves(t, status) ==
    /\ t \in Rows
    /\ status \in {"in_progress", "quality_review"}
    /\ task' = [task EXCEPT ![t].status = status]
    /\ UNCHANGED <<reviews, project>>

CreateProject(p) ==
    /\ project[p].status = "absent"
    /\ project' = [project EXCEPT ![p].status = "active"]
    /\ UNCHANGED <<task, reviews>>

\* PATCH, and DELETE in its default mode.  PATCH of the default project reads
\* the request body twice and fails.
SetProjectStatus(p, status) ==
    /\ p # General
    /\ project[p].status # "absent"
    /\ project' = [project EXCEPT ![p].status = status]
    /\ UNCHANGED <<task, reviews>>

\* DELETE with mode=delete: the tasks go to the default project and keep
\* their ticket numbers.
DeleteProject(p) ==
    /\ p # General
    /\ project[p].status # "absent"
    /\ task' = [t \in Tasks |->
                  IF t \in Rows /\ task[t].project = p
                  THEN [task[t] EXCEPT !.project = General, !.moved = TRUE] ELSE task[t]]
    /\ project' = [project EXCEPT ![p] = NoProject]
    /\ UNCHANGED reviews

---------------------------------------------------------------------------
(* Synchronisation with the Conductor *)

\* The Conductor rewrites its file; a reader may see it torn.
BeginWrite ==
    /\ file.version + 2 <= MaxVersions
    /\ ~file.torn
    /\ file' = [file EXCEPT !.version = @ + 1, !.torn = TRUE]
    /\ UNCHANGED <<board, ops, sync>>

EndWrite(tasks) ==
    /\ file.torn
    /\ file' = [version |-> file.version + 1, torn |-> FALSE, tasks |-> tasks]
    /\ UNCHANGED <<board, ops, sync>>

\* syncConductorData takes the stamp of the file and goes on if it is new.
SyncStat ==
    /\ stat = Unset
    /\ file.version \notin {0, hash}
    /\ stat' = file.version
    /\ UNCHANGED <<board, ops, file, hash, imported, unread>>

KnownOpen(k) ==  \* mutant: rows that are done are not found
    {t \in Rows : task[t].key = k /\ task[t].status # "done"}

\* The rows of a task of the Conductor.
Known(k) == {t \in Rows : task[t].key = k}

\* Tasks of the file are updated or inserted; tasks that have left the file
\* stay as they are.  Their agents are tmux sessions, none of the agents here.
Upsert(tasks) ==
    LET listed == {k \in Keys : tasks[k] # None}
    IN  \E row \in [listed -> Tasks] :
          /\ \A k \in listed : row[k] \in IF Known(k) # {} THEN Known(k) ELSE Tasks \ Rows
          /\ \A k, l \in listed : row[k] = row[l] => k = l
          /\ task' = [t \in Tasks |->
               IF \E k \in listed : row[k] = t
               THEN LET k == CHOOSE k \in listed : row[k] = t
                        status == StatusMap[tasks[k]]
                    IN  IF t \in Rows
                        THEN [task[t] EXCEPT !.status = status, !.agent = None]
                        ELSE [status |-> status, agent |-> None, project |-> Company,
                              ticket |-> 0, key |-> k, moved |-> FALSE,
                              written |-> FALSE]
               ELSE task[t]]

\* companies.json is in order, so the project of the company exists.
SyncCompany ==
    project' = [project EXCEPT ![Company] =
                  IF @.status = "absent" THEN [status |-> "active", counter |-> 0] ELSE @]

\* The file is read and copied.  A file that cannot be read or parsed counts
\* as an empty one.
SyncRead(readable) ==
    /\ stat # Unset
    /\ stat' = Unset
    /\ hash' = stat
    /\ SyncCompany
    /\ IF readable /\ ~file.torn
       THEN Upsert(file.tasks) /\ imported' = file.version /\ UNCHANGED unread
       ELSE unread' = file.version /\ UNCHANGED <<task, imported>>
    /\ UNCHANGED <<reviews, ops, file>>

SyncThrowsLate ==  \* mutant: the stamp is stored before the copying
    /\ stat # Unset
    /\ stat' = Unset
    /\ hash' = stat
    /\ SyncCompany
    /\ UNCHANGED <<task, reviews, ops, file, imported, unread>>

\* The transaction of syncTasks fails; the tasks are as before.
SyncThrows ==
    /\ stat # Unset
    /\ stat' = Unset
    /\ SyncCompany
    /\ UNCHANGED <<task, reviews, ops, file, hash, imported, unread>>

\* The server restarts: lastSyncHash is lost.
Restart ==
    /\ hash' = 0
    /\ stat' = Unset
    /\ UNCHANGED <<board, ops, file, imported, unread>>

---------------------------------------------------------------------------
Request ==
    /\ stat = Unset
    /\ ops < MaxOps
    /\ ops' = ops + 1
    /\ \/ \E t \in Tasks, agent \in Agents \cup {None} :
            \/ \E status \in Requested, p \in Projects \cup {Unset}, key \in Keys \cup {None} :
                 CreateTask(t, status, agent, p, key)
            \/ \E closed \in BOOLEAN : ImportIssue(t, closed, agent)
       \/ \E t \in Tasks, status \in Requested \cup {Unset}, agent \in Agents \cup {None, Unset},
             p \in Projects \cup {Unset}, key \in Keys \cup {None} :
            UpdateTask(t, status, agent, p, key)
       \/ \E t \in Tasks : DeleteTask(t)
       \/ \E S \in SUBSET Tasks : \E move \in [S -> Requested] : BulkUpdate(move)
       \/ \E agent \in Agents : PollQueue(agent)
       \/ \E t \in Tasks, verdict \in {"approved", "rejected"}, sameSecond \in BOOLEAN :
            AegisReview(t, verdict, sameSecond)
       \/ \E t \in Tasks, status \in {"in_progress", "quality_review"} : PipelineMoves(t, status)
       \/ \E p \in Projects :
            \/ CreateProject(p) \/ DeleteProject(p)
            \/ \E status \in {"active", "archived"} : SetProjectStatus(p, status)
    /\ UNCHANGED <<file, sync>>

Conductor ==
    \/ BeginWrite
    \/ \E tasks \in [Keys -> Reported \cup {None}] : EndWrite(tasks)

Synchronise == SyncStat \/ (\E readable \in BOOLEAN : SyncRead(readable)) \/ SyncThrows \/ Restart

Next == Request \/ Conductor \/ Synchronise

Spec == Init /\ [][Next]_vars
---------------------------------------------------------------------------
(* Properties *)

\* "Quality gates ... blocks task completion without sign-off": a task that is
\* on the board is moved to done by the board's own routes only if the last
\* word of Aegis (of its second) is an approval; a bulk update is no way round.
GateHonoured ==
    [][stat = Unset => \A t \in Rows :
         task[t].status # "done" /\ task'[t] # NoTask /\ task'[t].status = "done"
         => "approved" \in reviews'[t]]_vars

\* "Each project has its own ticket prefix and counter": no ticket is given
\* twice in a project, moves between projects, archiving and deletion
\* included.  Tasks whose project was deleted bring their old numbers along.
TicketsUnique ==
    \A t, u \in Rows :
        /\ t # u
        /\ task[t].ticket # 0
        /\ task[t].ticket = task[u].ticket
        /\ task[t].project = task[u].project
        => task[t].moved \/ task[u].moved

\* The synchronisation finds the row of a task of the Conductor again, whatever
\* requests did to its other fields, after restarts and however often the file is
\* read: of the rows with a key, one at most has it from the synchronisation.
\* Requests write conductor_id as they like, so they can make a second row of a key;
\* and a row they took it from is not found again, so its task gets a second row.
OneTaskPerKey ==
    \A t, u \in Rows :
        task[t].key # None /\ task[t].key = task[u].key
        => t = u \/ task[t].written \/ task[u].written

\* "Only update hash AFTER successful sync": a version of the task file is
\* passed over as unchanged only if its content was read, or if it is the very
\* version whose reading failed.
HashIsHonest ==
    file.version # 0 /\ hash = file.version => file.version \in {imported, unread}
=============================================================================
