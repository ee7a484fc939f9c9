--------------------------- MODULE TaskBoardProofs ---------------------------
(***************************************************************************)
(* Proofs about TaskBoard: types, ticket numbers, the correspondence with  *)
(* the tasks of the Conductor, the honesty of the stored stamp and the     *)
(* quality gate, for any number of rows, agents, projects, keys, requests  *)
(* and writes.                                                             *)
(***************************************************************************)
EXTENDS TaskBoard, TLAPS

---------------------------------------------------------------------------
(* The inductive invariant *)

\* The default project can be neither archived nor deleted, so there is always
\* a project to put a task into.
GeneralActive == project[General].status = "active"

\* A request allocates one ticket at most.
CountersBounded == \A p \in Projects : project[p].counter <= ops

\* A ticket that was not brought along from a deleted project was allocated by
\* the counter of the project that the task is in, which still exists.
TicketsAllocated ==
    \A t \in Rows : task[t].ticket # 0 /\ ~task[t].moved =>
        /\ task[t].project \in Projects
        /\ project[task[t].project].status # "absent"
        /\ task[t].ticket <= project[task[t].project].counter

\* Stamps never come from the future.
StampsPast ==
    /\ hash <= file.version
    /\ stat # Unset => stat <= file.version

\* A write that has begun has a version left to end with.
WriteFits == file.torn => file.version < MaxVersions

\* What is said of the tables.
BoardInv ==
    /\ GeneralActive
    /\ CountersBounded
    /\ TicketsAllocated
    /\ TicketsUnique
    /\ OneTaskPerKey

IInv == TypeOK /\ BoardInv /\ StampsPast /\ WriteFits /\ HashIsHonest

---------------------------------------------------------------------------
(* What a step does to a row *)

\* A row that was there before and keeps ticket, project and key; or a request
\* wrote the key.
Kept(t) ==
    /\ t \in Rows
    /\ task'[t].ticket = task[t].ticket
    /\ task'[t].project = task[t].project
    /\ task'[t].moved = task[t].moved
    /\ task'[t].written \/ (~task[t].written /\ task'[t].key = task[t].key)

\* A row with neither ticket nor key.
Blank(t) == task'[t].ticket = 0 /\ task'[t].key = None

\* Projects that exist stay, with their counters.
ProjectsStay ==
    \A p \in Projects : project[p].status # "absent" =>
        project'[p].status # "absent" /\ project'[p].counter = project[p].counter

\* A row is told apart from NoTask by its fields.
LEMMA RowTypes ==
    ASSUME TypeOK
    PROVE  /\ \A t \in Rows : t \in Tasks /\ task[t] \in Task
           /\ \A row \in Task : row # NoTask
  BY DEF TypeOK, Rows, Task, NoTask

\* A step that allocates no ticket.
LEMMA NothingAllocated ==
    ASSUME IInv, TypeOK', CountersBounded', ProjectsStay,
           project'[General].status = "active",
           \A t \in Rows' : Kept(t) \/ task'[t].ticket = 0,
           OneTaskPerKey'
    PROVE  BoardInv'
<1>1. GeneralActive'
  BY DEF GeneralActive
<1>2. TicketsAllocated'
  <2> SUFFICES ASSUME NEW t \in Rows', task'[t].ticket # 0, ~task'[t].moved
               PROVE  /\ task'[t].project \in Projects
                      /\ project'[task'[t].project].status # "absent"
                      /\ task'[t].ticket <= project'[task'[t].project].counter
    BY DEF TicketsAllocated
  <2> QED
    BY DEF IInv, BoardInv, TicketsAllocated, ProjectsStay, Kept
<1>3. TicketsUnique'
  BY DEF IInv, BoardInv, TicketsUnique, Kept
<1> QED
  BY <1>1, <1>2, <1>3 DEF BoardInv

\* A row gets the next ticket of a project.
LEMMA TicketAllocated ==
    ASSUME IInv, NEW t \in Tasks, NEW p \in Projects, NEW row \in Task,
           project[p].status # "absent",
           row.project = p, row.ticket = Ticket(p), ~row.moved,
           \/ row.written \/ row.key = None
           \/ t \in Rows /\ ~task[t].written /\ row.key = task[t].key,
           ops < MaxOps, ops' = ops + 1,
           task' = [task EXCEPT ![t] = row],
           project' = Allocate(p),
           UNCHANGED <<reviews, file, sync>>
    PROVE  TypeOK' /\ BoardInv'
<1> USE TaskAssumption
<1>1. /\ task' \in [Tasks -> Task \cup {NoTask}]
      /\ task'[t] = row
      /\ \A u \in Tasks : u # t => task'[u] = task[u]
  BY DEF IInv, TypeOK
<1>2. Rows' = Rows \cup {t}
  BY <1>1, RowTypes DEF IInv, Rows
<1>3. /\ project[p] \in Project
      /\ project[p].counter \in Nat
      /\ ops \in Nat
      /\ project[p].counter <= ops
  BY DEF IInv, TypeOK, BoardInv, CountersBounded, Project
<1> DEFINE new == [project[p] EXCEPT !.counter = project[p].counter + 1]
<1>4. /\ new \in Project
      /\ new.counter = project[p].counter + 1
      /\ new.status = project[p].status
  BY <1>3 DEF Project
<1>5. project' = [project EXCEPT ![p] = new]
  BY DEF Allocate, Ticket
<1> HIDE DEF new
<1>6. /\ project' \in [Projects -> Project]
      /\ project'[p] = new
      /\ \A q \in Projects : q # p => project'[q] = project[q]
  BY <1>4, <1>5 DEF IInv, TypeOK
<1>7. ops' \in 0..MaxOps
  BY <1>3
<1>8. TypeOK'
  BY <1>1, <1>6, <1>7 DEF IInv, TypeOK, sync
<1>9. GeneralActive'
  BY <1>4, <1>6 DEF IInv, BoardInv, GeneralActive
<1>10. CountersBounded'
  <2> SUFFICES ASSUME NEW q \in Projects PROVE project'[q].counter <= ops'
    BY DEF CountersBounded
  <2>1. project[q].counter \in Nat /\ project[q].counter <= ops
    BY DEF IInv, TypeOK, BoardInv, CountersBounded, Project
  <2> QED
    BY <1>3, <1>4, <1>6, <2>1
<1>11. row.ticket = project[p].counter + 1
  BY DEF Ticket
<1>12. \A u \in Rows : /\ task[u].ticket \in Nat
                       /\ task[u].ticket # 0 /\ ~task[u].moved /\ task[u].project = p
                          => task[u].ticket <= project[p].counter
  BY RowTypes DEF IInv, BoardInv, TicketsAllocated, Task
<1>13. TicketsAllocated'
  <2> SUFFICES ASSUME NEW u \in Rows', task'[u].ticket # 0, ~task'[u].moved
               PROVE  /\ task'[u].project \in Projects
                      /\ project'[task'[u].project].status # "absent"
                      /\ task'[u].ticket <= project'[task'[u].project].counter
    BY DEF TicketsAllocated
  <2>1. CASE u = t
    BY <1>1, <1>3, <1>4, <1>6, <1>11, <2>1
  <2>2. CASE u # t
    <3>1. u \in Rows /\ u \in Tasks /\ task'[u] = task[u]
      BY <1>1, <1>2, <2>2 DEF Rows
    <3>2. /\ task[u].project \in Projects
          /\ project[task[u].project].status # "absent"
          /\ task[u].ticket <= project[task[u].project].counter
      BY <3>1 DEF IInv, BoardInv, TicketsAllocated
    <3> QED
      BY <1>3, <1>4, <1>6, <1>12, <3>1, <3>2
  <2> QED
    BY <2>1, <2>2
<1>14. TicketsUnique'
  <2> SUFFICES ASSUME NEW u \in Rows', NEW v \in Rows', u # v,
                      task'[u].ticket # 0,
                      task'[u].ticket = task'[v].ticket,
                      task'[u].project = task'[v].project,
                      ~task'[u].moved, ~task'[v].moved
               PROVE  FALSE
    BY DEF TicketsUnique
  <2>1. CASE u # t /\ v # t
    BY <1>1, <1>2, <2>1 DEF IInv, BoardInv, TicketsUnique, Rows
  <2>2. CASE u = t
    BY <1>1, <1>2, <1>3, <1>11, <1>12, <2>2 DEF Rows
  <2>3. CASE v = t
    BY <1>1, <1>2, <1>3, <1>11, <1>12, <2>3 DEF Rows
  <2> QED
    BY <2>1, <2>2, <2>3
<1>15. OneTaskPerKey'
  BY <1>1, <1>2 DEF IInv, BoardInv, OneTaskPerKey, Rows
<1> QED
  BY <1>8, <1>9, <1>10, <1>13, <1>14, <1>15 DEF BoardInv

\* A step that allocates nothing and leaves the projects as they are.
LEMMA RowsOnly ==
    ASSUME IInv, task' \in [Tasks -> Task \cup {NoTask}],
           \A t \in Rows' : Kept(t) \/ Blank(t),
           reviews' \in [Tasks -> SUBSET {"approved", "rejected"}],
           ops < MaxOps, ops' = ops + 1,
           UNCHANGED <<project, file, sync>>
    PROVE  TypeOK' /\ BoardInv'
<1> USE TaskAssumption
<1>1. ops' \in 0..MaxOps /\ ops' >= ops
  BY DEF IInv, TypeOK
<1>2. TypeOK'
  BY <1>1 DEF IInv, TypeOK, sync
<1>3. CountersBounded'
  <2> SUFFICES ASSUME NEW q \in Projects PROVE project[q].counter <= ops'
    BY DEF CountersBounded
  <2>1. project[q].counter \in Nat /\ project[q].counter <= ops /\ ops \in Nat
    BY DEF IInv, TypeOK, BoardInv, CountersBounded, Project
  <2> QED
    BY <1>1, <2>1
<1>4. ProjectsStay /\ project'[General].status = "active"
  BY DEF ProjectsStay, IInv, BoardInv, GeneralActive
<1>5. OneTaskPerKey'
  BY DEF IInv, BoardInv, OneTaskPerKey, Kept, Blank
<1>6. \A t \in Rows' : Kept(t) \/ task'[t].ticket = 0
  BY DEF Blank
<1> QED
  BY <1>2, <1>3, <1>4, <1>5, <1>6, NothingAllocated

\* A step that replaces a row by one with its ticket and its project, and with its
\* key unless a request wrote it.
LEMMA RowReplaced ==
    ASSUME IInv, NEW t \in Rows, NEW row \in Task,
           row.ticket = task[t].ticket, row.project = task[t].project,
           row.moved = task[t].moved,
           row.written \/ (~task[t].written /\ row.key = task[t].key),
           task' = [task EXCEPT ![t] = row],
           reviews' \in [Tasks -> SUBSET {"approved", "rejected"}],
           ops < MaxOps, ops' = ops + 1,
           UNCHANGED <<project, file, sync>>
    PROVE  TypeOK' /\ BoardInv'
<1>1. t \in Tasks
  BY DEF Rows
<1>2. /\ task' \in [Tasks -> Task \cup {NoTask}]
      /\ task'[t] = row
      /\ \A u \in Tasks : u # t => task'[u] = task[u]
  BY <1>1 DEF IInv, TypeOK
<1>3. \A u \in Rows' : Kept(u)
  BY <1>2 DEF Kept, Rows
<1> QED
  BY <1>2, <1>3, RowsOnly

---------------------------------------------------------------------------
(* The initial state and the requests *)

\* An empty board and no file.
LEMMA InitIInv == Init => IInv
<1> SUFFICES ASSUME Init PROVE IInv
  OBVIOUS
<1> USE TaskAssumption
<1>1. TypeOK
  BY DEF Init, TypeOK, Project, NoProject, File
<1>2. Rows = {}
  BY DEF Init, Rows
<1>3. GeneralActive /\ CountersBounded
  BY DEF Init, GeneralActive, CountersBounded, NoProject
<1>4. TicketsAllocated /\ TicketsUnique /\ OneTaskPerKey
  BY <1>2 DEF TicketsAllocated, TicketsUnique, OneTaskPerKey
<1>5. StampsPast /\ WriteFits /\ HashIsHonest
  BY DEF Init, StampsPast, WriteFits, HashIsHonest
<1> QED
  BY <1>1, <1>3, <1>4, <1>5 DEF IInv, BoardInv

\* What all the requests share.
Served == ops < MaxOps /\ ops' = ops + 1 /\ UNCHANGED <<file, sync>>

\* A ticket number stays below the bound, as there is one for each request.
LEMMA TicketTypes ==
    ASSUME IInv, NEW p \in Projects, ops < MaxOps
    PROVE  Ticket(p) \in 0..MaxOps
<1>1. project[p].counter \in Nat /\ project[p].counter <= ops /\ ops \in Nat
  BY DEF IInv, TypeOK, BoardInv, CountersBounded, Project
<1> QED
  BY <1>1, TaskAssumption DEF Ticket

\* The project of a new task is an active one, or the default project.
LEMMA CreateTaskStep ==
    ASSUME IInv, Served, NEW t \in Tasks, NEW status \in Requested,
           NEW agent \in Agents \cup {None}, NEW p \in Projects \cup {Unset},
           NEW key \in Keys \cup {None}, CreateTask(t, status, agent, p, key)
    PROVE  TypeOK' /\ BoardInv'
<1> DEFINE q == ResolveProject(p)
           row == [status |-> NormalizeCreate(status, agent), agent |-> agent,
                   project |-> q, ticket |-> Ticket(q), key |-> key, moved |-> FALSE,
                   written |-> key # None]
<1>1. q \in Projects /\ project[q].status # "absent"
  BY TaskAssumption DEF ResolveProject, IInv, BoardInv, GeneralActive
<1>2. NormalizeCreate(status, agent) \in Status
  BY TaskAssumption DEF NormalizeCreate, Status
<1>3. Ticket(q) \in 0..MaxOps
  BY <1>1, TicketTypes DEF Served
<1>4. row \in Task
  BY <1>1, <1>2, <1>3 DEF Task
<1>5. /\ row.project = q /\ row.ticket = Ticket(q) /\ ~row.moved
      /\ row.written \/ row.key = None
  OBVIOUS
<1>6. task' = [task EXCEPT ![t] = row] /\ project' = Allocate(q) /\ UNCHANGED reviews
  BY DEF CreateTask
<1> HIDE DEF q, row
<1> QED
  BY <1>1, <1>4, <1>5, <1>6, TicketAllocated DEF Served

\* An imported issue has neither ticket nor key.
LEMMA ImportIssueStep ==
    ASSUME IInv, Served, NEW t \in Tasks, NEW closed \in BOOLEAN,
           NEW agent \in Agents \cup {None}, ImportIssue(t, closed, agent)
    PROVE  TypeOK' /\ BoardInv'
<1> DEFINE row == [status |-> IF closed THEN "done" ELSE "inbox", agent |-> agent,
                   project |-> None, ticket |-> 0, key |-> None, moved |-> FALSE,
                   written |-> FALSE]
<1>1. row \in Task
  BY TaskAssumption DEF Task, Status
<1>2. row.ticket = 0 /\ row.key = None
  OBVIOUS
<1>3. task' = [task EXCEPT ![t] = row] /\ UNCHANGED <<reviews, project>>
  BY DEF ImportIssue
<1> HIDE DEF row
<1>4. /\ task' \in [Tasks -> Task \cup {NoTask}]
      /\ task'[t] = row
      /\ \A u \in Tasks : u # t => task'[u] = task[u]
  BY <1>1, <1>3 DEF IInv, TypeOK
<1>5. \A u \in Rows' : Kept(u) \/ Blank(u)
  BY <1>2, <1>4 DEF Kept, Blank, Rows
<1>6. reviews' \in [Tasks -> SUBSET {"approved", "rejected"}]
  BY <1>3 DEF IInv, TypeOK
<1> QED
  BY <1>3, <1>4, <1>5, <1>6, RowsOnly DEF Served

\* An update that moves the task to another project allocates a ticket there;
\* any other one replaces the row.
LEMMA UpdateTaskStep ==
    ASSUME IInv, Served, NEW t \in Tasks, NEW status \in Requested \cup {Unset},
           NEW agent \in Agents \cup {None, Unset}, NEW p \in Projects \cup {Unset},
           NEW key \in Keys \cup {None}, UpdateTask(t, status, agent, p, key)
    PROVE  TypeOK' /\ BoardInv'
<1> DEFINE old == task[t]
           new == NormalizeUpdate(old.status, ParsedStatus(status), agent)
           moves == p \notin {Unset, old.project}
           row == [status  |-> new,
                   agent   |-> IF agent = Unset THEN old.agent ELSE agent,
                   project |-> IF p = Unset THEN old.project ELSE p,
                   ticket  |-> IF moves THEN Ticket(p) ELSE old.ticket,
                   key     |-> key,
                   moved   |-> old.moved /\ ~moves,
                   written |-> old.written \/ key # old.key]
<1>1. t \in Rows /\ old \in Task
  BY RowTypes DEF UpdateTask, IInv
<1>2. new \in Status
  BY <1>1, TaskAssumption DEF NormalizeUpdate, ParsedStatus, Status
<1>3. moves => p \in Projects /\ Ticket(p) \in 0..MaxOps /\ project[p].status # "absent"
  BY TicketTypes DEF Served, UpdateTask
<1>4. row \in Task
  <2>1. (IF agent = Unset THEN old.agent ELSE agent) \in Agents \cup {None}
    BY <1>1 DEF Task
  <2>2. (IF p = Unset THEN old.project ELSE p) \in Projects \cup {None}
    BY <1>1 DEF Task
  <2>3. (IF moves THEN Ticket(p) ELSE old.ticket) \in 0..MaxOps
    BY <1>1, <1>3 DEF Task
  <2>4. (old.written \/ key # old.key) \in BOOLEAN
    OBVIOUS
  <2>5. (old.moved /\ ~moves) \in BOOLEAN
    OBVIOUS
  <2> HIDE DEF old, new, moves
  <2> QED
    BY <1>2, <2>1, <2>2, <2>3, <2>4, <2>5 DEF Task
<1>5. /\ task' = [task EXCEPT ![t] = row]
      /\ project' = IF moves THEN Allocate(p) ELSE project
      /\ UNCHANGED reviews
  BY DEF UpdateTask
<1>6. row.written \/ (~old.written /\ row.key = old.key)
  OBVIOUS
<1>7. CASE moves
  <2>1. row.project = p /\ row.ticket = Ticket(p) /\ ~row.moved
    BY <1>7
  <2>2. project' = Allocate(p)
    BY <1>5, <1>7
  <2>3. \/ row.written \/ row.key = None
        \/ t \in Rows /\ ~task[t].written /\ row.key = task[t].key
    BY <1>1, <1>6
  <2> HIDE DEF row
  <2> QED
    BY <1>3, <1>4, <1>5, <1>7, <2>1, <2>2, <2>3, TicketAllocated DEF Served
<1>8. CASE ~moves
  <2>1. row.project = task[t].project /\ row.ticket = task[t].ticket
    BY <1>8
  <2>2. row.moved = task[t].moved
    BY <1>1, <1>8 DEF Task
  <2>3. UNCHANGED project /\ reviews' \in [Tasks -> SUBSET {"approved", "rejected"}]
    BY <1>5, <1>8 DEF IInv, TypeOK
  <2>4. row.written \/ (~task[t].written /\ row.key = task[t].key)
    BY <1>6
  <2> HIDE DEF row
  <2> QED
    BY <1>1, <1>4, <1>5, <2>1, <2>2, <2>3, <2>4, RowReplaced DEF Served
<1> QED
  BY <1>7, <1>8

\* A row less.
LEMMA DeleteTaskStep ==
    ASSUME IInv, Served, NEW t \in Tasks, DeleteTask(t)
    PROVE  TypeOK' /\ BoardInv'
<1>1. /\ task' = [task EXCEPT ![t] = NoTask]
      /\ reviews' = [reviews EXCEPT ![t] = {}]
      /\ UNCHANGED project
  BY DEF DeleteTask
<1>2. task' \in [Tasks -> Task \cup {NoTask}]
  BY <1>1 DEF IInv, TypeOK
<1>3. reviews' \in [Tasks -> SUBSET {"approved", "rejected"}]
  BY <1>1 DEF IInv, TypeOK
<1>4. \A u \in Rows' : Kept(u)
  BY <1>1 DEF IInv, TypeOK, Rows, Kept
<1> QED
  BY <1>1, <1>2, <1>3, <1>4, RowsOnly DEF Served

\* A bulk update changes nothing but statuses.
LEMMA BulkUpdateStep ==
    ASSUME IInv, Served, NEW S \in SUBSET Tasks, NEW move \in [S -> Requested],
           BulkUpdate(move)
    PROVE  TypeOK' /\ BoardInv'
<1> DEFINE found == DOMAIN move \cap Rows
<1>1. /\ task' = [t \in Tasks |->
                    IF t \in found THEN [task[t] EXCEPT !.status = move[t]] ELSE task[t]]
      /\ UNCHANGED <<reviews, project>>
  BY DEF BulkUpdate
<1>2. ASSUME NEW t \in found
      PROVE  /\ t \in Rows
             /\ task'[t] \in Task
             /\ task'[t].ticket = task[t].ticket
             /\ task'[t].project = task[t].project
             /\ task'[t].moved = task[t].moved
             /\ task'[t].key = task[t].key
             /\ task'[t].written = task[t].written
  <2>1. t \in Tasks /\ t \in Rows /\ task[t] \in Task /\ move[t] \in Status
    BY RowTypes, TaskAssumption DEF IInv
  <2>2. task'[t] = [task[t] EXCEPT !.status = move[t]]
    BY <1>1, <2>1
  <2> QED
    BY <2>1, <2>2 DEF Task
<1>3. \A t \in Tasks \ found : task'[t] = task[t]
  BY <1>1
<1>4. task' \in [Tasks -> Task \cup {NoTask}]
  <2>1. ASSUME NEW t \in Tasks PROVE task'[t] \in Task \cup {NoTask}
    BY <1>2, <1>3 DEF IInv, TypeOK
  <2>2. task' = [t \in Tasks |-> task'[t]]
    BY <1>1
  <2> HIDE DEF found
  <2> QED
    BY <2>1, <2>2
<1>5. \A t \in Rows' : Kept(t)
  <2> SUFFICES ASSUME NEW t \in Rows' PROVE Kept(t)
    OBVIOUS
  <2>1. CASE t \in found
    BY <1>2, <2>1 DEF Kept
  <2>2. CASE t \notin found
    BY <1>3, <2>2 DEF Kept, Rows
  <2> QED
    BY <2>1, <2>2
<1>6. reviews' \in [Tasks -> SUBSET {"approved", "rejected"}]
  BY <1>1 DEF IInv, TypeOK
<1> QED
  BY <1>1, <1>4, <1>5, <1>6, RowsOnly DEF Served

\* The queue assigns a row and keeps the rest of it.
LEMMA PollQueueStep ==
    ASSUME IInv, Served, NEW agent \in Agents, PollQueue(agent)
    PROVE  TypeOK' /\ BoardInv'
<1>1. PICK t \in Rows :
        task' = [task EXCEPT ![t].status = "in_progress", ![t].agent = agent]
  BY DEF PollQueue
<1> DEFINE row == [task[t] EXCEPT !.status = "in_progress", !.agent = agent]
<1>2. t \in Tasks /\ task[t] \in Task
  BY <1>1, RowTypes DEF IInv
<1>3. /\ row \in Task /\ row.ticket = task[t].ticket /\ row.project = task[t].project
      /\ row.moved = task[t].moved /\ row.key = task[t].key
      /\ row.written = task[t].written
  BY <1>2 DEF Task, Status
<1>4. task' = [task EXCEPT ![t] = row]
  BY <1>1, <1>2 DEF IInv, TypeOK
<1>5. UNCHANGED project /\ reviews' \in [Tasks -> SUBSET {"approved", "rejected"}]
  BY DEF PollQueue, IInv, TypeOK
<1> HIDE DEF row
<1> QED
  BY <1>1, <1>3, <1>4, <1>5, RowReplaced DEF Served

\* A row whose status changes.
LEMMA StatusChanged ==
    ASSUME IInv, Served, NEW t \in Rows, NEW status \in Status,
           task' = [task EXCEPT ![t].status = status],
           reviews' \in [Tasks -> SUBSET {"approved", "rejected"}],
           UNCHANGED project
    PROVE  TypeOK' /\ BoardInv'
<1> DEFINE row == [task[t] EXCEPT !.status = status]
<1>1. task' = [task EXCEPT ![t] = row]
  OBVIOUS
<1>2. /\ row \in Task /\ row.ticket = task[t].ticket /\ row.project = task[t].project
      /\ row.moved = task[t].moved /\ row.key = task[t].key
      /\ row.written = task[t].written
  BY RowTypes DEF IInv, Task
<1> HIDE DEF row
<1> QED
  BY <1>1, <1>2, RowReplaced DEF Served

\* An approval moves the task; a rejection leaves the tasks alone.
LEMMA AegisReviewStep ==
    ASSUME IInv, Served, NEW t \in Tasks, NEW verdict \in {"approved", "rejected"},
           NEW sameSecond \in BOOLEAN, AegisReview(t, verdict, sameSecond)
    PROVE  TypeOK' /\ BoardInv'
<1>1. t \in Rows /\ UNCHANGED project
  BY DEF AegisReview
<1>2. reviews' \in [Tasks -> SUBSET {"approved", "rejected"}]
  <2>1. ((IF sameSecond THEN reviews[t] ELSE {}) \cup {verdict}) \in SUBSET {"approved", "rejected"}
    BY DEF IInv, TypeOK
  <2>2. reviews' = [reviews EXCEPT ![t] = (IF sameSecond THEN reviews[t] ELSE {}) \cup {verdict}]
    BY DEF AegisReview, IInv, TypeOK
  <2> QED
    BY <2>1, <2>2 DEF IInv, TypeOK
<1>3. CASE verdict = "approved"
  BY <1>1, <1>2, <1>3, StatusChanged DEF AegisReview, Status
<1>4. CASE verdict # "approved"
  <2>1. task' = task
    BY <1>4 DEF AegisReview
  <2>2. task' \in [Tasks -> Task \cup {NoTask}] /\ \A u \in Rows' : Kept(u)
    BY <2>1 DEF IInv, TypeOK, Rows, Kept
  <2> QED
    BY <1>1, <1>2, <2>2, RowsOnly DEF Served
<1> QED
  BY <1>3, <1>4

\* A pipeline run changes nothing but the status.
LEMMA PipelineMovesStep ==
    ASSUME IInv, Served, NEW t \in Tasks, NEW status, PipelineMoves(t, status)
    PROVE  TypeOK' /\ BoardInv'
<1>1. t \in Rows /\ status \in Status /\ UNCHANGED project
  BY DEF PipelineMoves, Status
<1>2. reviews' \in [Tasks -> SUBSET {"approved", "rejected"}]
  BY DEF PipelineMoves, IInv, TypeOK
<1>3. task' = [task EXCEPT ![t].status = status]
  BY DEF PipelineMoves
<1> QED
  BY <1>1, <1>2, <1>3, StatusChanged

\* A step that touches projects only, and deletes none.
LEMMA ProjectsOnly ==
    ASSUME IInv, Served, NEW p \in Projects \ {General}, NEW status \in {"active", "archived"},
           project' = [project EXCEPT ![p].status = status], UNCHANGED <<task, reviews>>
    PROVE  TypeOK' /\ BoardInv'
<1>1. /\ project' \in [Projects -> Project]
      /\ \A q \in Projects : project'[q].counter = project[q].counter
      /\ project'[p].status = status
      /\ \A q \in Projects : q # p => project'[q] = project[q]
  BY DEF IInv, TypeOK, Project
<1>2. ops' \in 0..MaxOps /\ ops' >= ops
  BY TaskAssumption DEF IInv, TypeOK, Served
<1>3. TypeOK'
  BY <1>1, <1>2 DEF IInv, TypeOK, Served, sync
<1>4. CountersBounded'
  <2> SUFFICES ASSUME NEW q \in Projects PROVE project'[q].counter <= ops'
    BY DEF CountersBounded
  <2>1. project[q].counter \in Nat /\ project[q].counter <= ops /\ ops \in Nat
    BY DEF IInv, TypeOK, BoardInv, CountersBounded, Project
  <2> QED
    BY <1>1, <1>2, <2>1
<1>5. ProjectsStay /\ project'[General].status = "active"
  BY <1>1, TaskAssumption DEF ProjectsStay, IInv, BoardInv, GeneralActive
<1>6. (\A t \in Rows' : Kept(t)) /\ OneTaskPerKey'
  BY DEF IInv, BoardInv, OneTaskPerKey, Kept, Rows
<1> QED
  BY <1>3, <1>4, <1>5, <1>6, NothingAllocated

\* The default project exists, so that it is another one that is created.
LEMMA CreateProjectStep ==
    ASSUME IInv, Served, NEW p \in Projects, CreateProject(p)
    PROVE  TypeOK' /\ BoardInv'
<1>1. p # General
  BY DEF CreateProject, IInv, BoardInv, GeneralActive
<1> QED
  BY <1>1, ProjectsOnly DEF CreateProject

\* The default project cannot be archived.
LEMMA SetProjectStatusStep ==
    ASSUME IInv, Served, NEW p \in Projects, NEW status \in {"active", "archived"},
           SetProjectStatus(p, status)
    PROVE  TypeOK' /\ BoardInv'
  BY ProjectsOnly DEF SetProjectStatus

\* The tickets that come to the default project are marked as moved, and those
\* that are not marked were not in the deleted project.
LEMMA DeleteProjectStep ==
    ASSUME IInv, Served, NEW p \in Projects, DeleteProject(p)
    PROVE  TypeOK' /\ BoardInv'
<1> USE TaskAssumption
<1> DEFINE gone(t) == t \in Rows /\ task[t].project = p
<1>1. /\ p # General
      /\ task' = [t \in Tasks |->
                    IF gone(t) THEN [task[t] EXCEPT !.project = General, !.moved = TRUE]
                    ELSE task[t]]
      /\ project' = [project EXCEPT ![p] = NoProject]
      /\ UNCHANGED reviews
  BY DEF DeleteProject
<1>2. ASSUME NEW t \in Tasks, gone(t)
      PROVE  /\ task'[t] \in Task
             /\ task'[t].moved = TRUE
             /\ task'[t].key = task[t].key
             /\ task'[t].written = task[t].written
  <2>1. task[t] \in Task
    BY <1>2, RowTypes DEF IInv
  <2>2. task'[t] = [task[t] EXCEPT !.project = General, !.moved = TRUE]
    BY <1>1, <1>2
  <2> QED
    BY <2>1, <2>2 DEF Task
<1>3. ASSUME NEW t \in Tasks, ~gone(t) PROVE task'[t] = task[t]
  BY <1>1, <1>3
<1>4. task' \in [Tasks -> Task \cup {NoTask}]
  <2>1. ASSUME NEW t \in Tasks PROVE task'[t] \in Task \cup {NoTask}
    BY <1>2, <1>3 DEF IInv, TypeOK
  <2>2. task' = [t \in Tasks |-> task'[t]]
    BY <1>1
  <2> HIDE DEF gone
  <2> QED
    BY <2>1, <2>2
<1>5. Rows' = Rows
  BY <1>2, <1>3, <1>4, RowTypes DEF IInv, Rows
<1>6. /\ project' \in [Projects -> Project]
      /\ project'[p] = NoProject
      /\ \A q \in Projects : q # p => project'[q] = project[q]
  <2>1. NoProject \in Project
    BY DEF Project, NoProject
  <2>2. project \in [Projects -> Project]
    BY DEF IInv, TypeOK
  <2> QED
    BY <1>1, <2>1, <2>2
<1>7. ops' \in 0..MaxOps /\ ops' >= ops /\ ops \in Nat
  BY DEF IInv, TypeOK, Served
<1>8. TypeOK'
  BY <1>1, <1>4, <1>6, <1>7 DEF IInv, TypeOK, Served, sync
<1>9. GeneralActive'
  BY <1>1, <1>6 DEF IInv, BoardInv, GeneralActive
<1>10. CountersBounded'
  <2> SUFFICES ASSUME NEW q \in Projects PROVE project'[q].counter <= ops'
    BY DEF CountersBounded
  <2>1. project[q].counter \in Nat /\ project[q].counter <= ops
    BY DEF IInv, TypeOK, BoardInv, CountersBounded, Project
  <2>2. NoProject.counter = 0
    BY DEF NoProject
  <2> QED
    BY <1>6, <1>7, <2>1, <2>2
<1>11. ASSUME NEW t \in Rows', ~task'[t].moved
       PROVE  t \in Rows /\ task'[t] = task[t] /\ task[t].project # p
  <2>1. t \in Tasks /\ t \in Rows
    BY <1>5 DEF Rows
  <2>2. ~gone(t)
    BY <1>2, <1>11, <2>1
  <2> QED
    BY <1>3, <2>1, <2>2
<1>12. TicketsAllocated'
  <2> SUFFICES ASSUME NEW t \in Rows', task'[t].ticket # 0, ~task'[t].moved
               PROVE  /\ task'[t].project \in Projects
                      /\ project'[task'[t].project].status # "absent"
                      /\ task'[t].ticket <= project'[task'[t].project].counter
    BY DEF TicketsAllocated
  <2>1. t \in Rows /\ task'[t] = task[t] /\ task[t].project # p
    BY <1>11
  <2> QED
    BY <1>6, <2>1 DEF IInv, BoardInv, TicketsAllocated
<1>13. TicketsUnique'
  BY <1>11 DEF IInv, BoardInv, TicketsUnique
<1>14. \A t \in Rows : task'[t].key = task[t].key /\ task'[t].written = task[t].written
  BY <1>2, <1>3 DEF Rows
<1>15. OneTaskPerKey'
  BY <1>5, <1>14 DEF IInv, BoardInv, OneTaskPerKey
<1> QED
  BY <1>8, <1>9, <1>10, <1>12, <1>13, <1>15 DEF BoardInv

\* A request keeps the invariant; the synchronisation is not affected.
LEMMA RequestStep ==
    ASSUME IInv, Request
    PROVE  IInv'
<1>1. Served
  BY DEF Request, Served
<1>2. TypeOK' /\ BoardInv'
  <2>1. CASE \E t \in Tasks, agent \in Agents \cup {None} :
               \/ \E status \in Requested, p \in Projects \cup {Unset},
                     key \in Keys \cup {None} : CreateTask(t, status, agent, p, key)
               \/ \E closed \in BOOLEAN : ImportIssue(t, closed, agent)
    BY <1>1, <2>1, CreateTaskStep, ImportIssueStep
  <2>2. CASE \E t \in Tasks, status \in Requested \cup {Unset},
                agent \in Agents \cup {None, Unset}, p \in Projects \cup {Unset},
                key \in Keys \cup {None} : UpdateTask(t, status, agent, p, key)
    BY <1>1, <2>2, UpdateTaskStep
  <2>3. CASE \E t \in Tasks : DeleteTask(t)
    BY <1>1, <2>3, DeleteTaskStep
  <2>4. CASE \E S \in SUBSET Tasks : \E move \in [S -> Requested] : BulkUpdate(move)
    BY <1>1, <2>4, BulkUpdateStep
  <2>5. CASE \E agent \in Agents : PollQueue(agent)
    BY <1>1, <2>5, PollQueueStep
  <2>6. CASE \E t \in Tasks, verdict \in {"approved", "rejected"}, sameSecond \in BOOLEAN :
               AegisReview(t, verdict, sameSecond)
    BY <1>1, <2>6, AegisReviewStep
  <2>7. CASE \E t \in Tasks, status \in {"in_progress", "quality_review"} :
               PipelineMoves(t, status)
    BY <1>1, <2>7, PipelineMovesStep
  <2>8. CASE \E p \in Projects :
               \/ CreateProject(p) \/ DeleteProject(p)
               \/ \E status \in {"active", "archived"} : SetProjectStatus(p, status)
    BY <1>1, <2>8, CreateProjectStep, DeleteProjectStep, SetProjectStatusStep
  <2> QED
    BY <2>1, <2>2, <2>3, <2>4, <2>5, <2>6, <2>7, <2>8 DEF Request
<1>3. StampsPast' /\ WriteFits' /\ HashIsHonest'
  BY <1>1 DEF Served, sync, IInv, StampsPast, WriteFits, HashIsHonest
<1> QED
  BY <1>2, <1>3 DEF IInv

---------------------------------------------------------------------------
(* The Conductor and the synchronisation *)

\* BoardInv speaks of the tables and of the number of requests only.
LEMMA BoardUnchanged ==
    ASSUME IInv, UNCHANGED <<task, project, ops>>
    PROVE  BoardInv'
  BY DEF IInv, BoardInv, GeneralActive, CountersBounded, TicketsAllocated, TicketsUnique,
         OneTaskPerKey, Rows

\* The types of the file and the stamps, as numbers.
LEMMA FileTypes ==
    ASSUME TypeOK
    PROVE  /\ file.version \in Nat /\ file.version <= MaxVersions
           /\ file.torn \in BOOLEAN
           /\ file.tasks \in [Keys -> Reported \cup {None}]
           /\ hash \in Nat
           /\ stat # Unset => stat \in 1..MaxVersions
  BY TaskAssumption DEF TypeOK, File

\* A write gives the file a stamp that nobody has seen.
LEMMA BeginWriteStep == ASSUME IInv, BeginWrite PROVE IInv'
<1> USE TaskAssumption
<1>1. /\ file' = [version |-> file.version + 1, torn |-> TRUE, tasks |-> file.tasks]
      /\ file.version + 1 < MaxVersions
      /\ UNCHANGED <<board, ops, sync>>
  <2>1. file \in File
    BY DEF IInv, TypeOK
  <2>2. file' = [file EXCEPT !.version = @ + 1, !.torn = TRUE]
    BY DEF BeginWrite
  <2>3. file' = [version |-> file.version + 1, torn |-> TRUE, tasks |-> file.tasks]
    BY <2>1, <2>2 DEF File
  <2>4. file.version + 1 < MaxVersions
    BY FileTypes DEF BeginWrite, IInv
  <2> QED
    BY <2>3, <2>4 DEF BeginWrite
<1>2. file' \in File
  BY <1>1, FileTypes DEF IInv, File
<1>3. TypeOK'
  BY <1>1, <1>2 DEF IInv, TypeOK, board, sync
<1>4. StampsPast' /\ WriteFits' /\ HashIsHonest'
  BY <1>1, FileTypes DEF IInv, StampsPast, WriteFits, HashIsHonest, sync
<1> QED
  BY <1>1, <1>3, <1>4, BoardUnchanged DEF IInv, board

\* So does its end.
LEMMA EndWriteStep ==
    ASSUME IInv, NEW tasks \in [Keys -> Reported \cup {None}], EndWrite(tasks)
    PROVE  IInv'
<1> USE TaskAssumption
<1>1. /\ file' = [version |-> file.version + 1, torn |-> FALSE, tasks |-> tasks]
      /\ file.version < MaxVersions
      /\ UNCHANGED <<board, ops, sync>>
  BY DEF EndWrite, IInv, WriteFits
<1>2. file' \in File
  BY <1>1, FileTypes DEF IInv, File
<1>3. TypeOK'
  BY <1>1, <1>2 DEF IInv, TypeOK, board, sync
<1>4. StampsPast' /\ WriteFits' /\ HashIsHonest'
  BY <1>1, FileTypes DEF IInv, StampsPast, WriteFits, HashIsHonest, sync
<1> QED
  BY <1>1, <1>3, <1>4, BoardUnchanged DEF IInv, board

\* The project of the company is there after a synchronisation.
LEMMA CompanySynced ==
    ASSUME IInv, SyncCompany, UNCHANGED ops
    PROVE  /\ project' \in [Projects -> Project]
           /\ CountersBounded'
           /\ ProjectsStay
           /\ project'[General].status = "active"
<1> USE TaskAssumption
<1> DEFINE new == IF project[Company].status = "absent"
                  THEN [status |-> "active", counter |-> 0] ELSE project[Company]
<1>1. new \in Project
  BY DEF IInv, TypeOK, Project
<1>2. project' = [project EXCEPT ![Company] = new]
  BY DEF SyncCompany
<1>3. /\ project' \in [Projects -> Project]
      /\ project'[Company] = new
      /\ \A q \in Projects : q # Company => project'[q] = project[q]
  <2> HIDE DEF new
  <2> QED
    BY <1>1, <1>2 DEF IInv, TypeOK
<1>4. CountersBounded'
  <2> SUFFICES ASSUME NEW q \in Projects PROVE project'[q].counter <= ops
    BY DEF CountersBounded
  <2>1. project[q].counter \in Nat /\ project[q].counter <= ops /\ ops \in Nat
    BY DEF IInv, TypeOK, BoardInv, CountersBounded, Project
  <2> QED
    BY <1>3, <2>1
<1>5. ProjectsStay
  BY <1>3 DEF ProjectsStay
<1>6. project'[General].status = "active"
  BY <1>3 DEF IInv, BoardInv, GeneralActive
<1> QED
  BY <1>3, <1>4, <1>5, <1>6

\* A file that is copied adds at most one row for a task that had none.
LEMMA UpsertStep ==
    ASSUME IInv, NEW tasks \in [Keys -> Reported \cup {None}], Upsert(tasks)
    PROVE  /\ task' \in [Tasks -> Task \cup {NoTask}]
           /\ \A t \in Rows' : Kept(t) \/ task'[t].ticket = 0
           /\ OneTaskPerKey'
<1> USE TaskAssumption
<1> DEFINE listed == {k \in Keys : tasks[k] # None}
<1>1. PICK row \in [listed -> Tasks] :
        /\ \A k \in listed : row[k] \in IF Known(k) # {} THEN Known(k) ELSE Tasks \ Rows
        /\ \A k, l \in listed : row[k] = row[l] => k = l
        /\ task' = [t \in Tasks |->
             IF \E k \in listed : row[k] = t
             THEN LET k == CHOOSE k \in listed : row[k] = t
                      status == StatusMap[tasks[k]]
                  IN  IF t \in Rows
                      THEN [task[t] EXCEPT !.status = status, !.agent = None]
                      ELSE [status |-> status, agent |-> None, project |-> Company,
                            ticket |-> 0, key |-> k, moved |-> FALSE, written |-> FALSE]
             ELSE task[t]]
  BY DEF Upsert
<1> DEFINE hit(t) == \E k \in listed : row[k] = t
<1>2. ASSUME NEW k \in listed PROVE row[k] \in Tasks /\ StatusMap[tasks[k]] \in Status
  <2>1. tasks[k] \in DOMAIN StatusMap
    OBVIOUS
  <2>2. \A s \in DOMAIN StatusMap : StatusMap[s] \in Status
    BY DEF StatusMap, Status
  <2> QED
    BY <1>1, <2>1, <2>2
<1>3. ASSUME NEW k \in listed, row[k] \in Rows
      PROVE  /\ task'[row[k]] \in Task
             /\ task'[row[k]].ticket = task[row[k]].ticket
             /\ task'[row[k]].project = task[row[k]].project
             /\ task'[row[k]].moved = task[row[k]].moved
             /\ task'[row[k]].key = task[row[k]].key
             /\ task'[row[k]].written = task[row[k]].written
  <2>1. task[row[k]] \in Task
    BY <1>3, RowTypes DEF IInv
  <2>2. k = CHOOSE l \in listed : row[l] = row[k]
    BY <1>1
  <2>3. task'[row[k]] = [task[row[k]] EXCEPT !.status = StatusMap[tasks[k]], !.agent = None]
    BY <1>1, <1>2, <1>3, <2>2
  <2> HIDE DEF listed
  <2> QED
    BY <1>2, <2>1, <2>3 DEF Task
<1>4. ASSUME NEW k \in listed, row[k] \notin Rows
      PROVE  /\ task'[row[k]] \in Task
             /\ task'[row[k]].ticket = 0
             /\ task'[row[k]].key = k
             /\ Known(k) = {}
  <2>1. k = CHOOSE l \in listed : row[l] = row[k]
    BY <1>1
  <2>2. task'[row[k]] = [status |-> StatusMap[tasks[k]], agent |-> None, project |-> Company,
                         ticket |-> 0, key |-> k, moved |-> FALSE, written |-> FALSE]
    BY <1>1, <1>2, <1>4, <2>1
  <2>3. Known(k) = {}
    BY <1>1, <1>4 DEF Known
  <2> HIDE DEF listed
  <2>4. k \in Keys
    BY DEF listed
  <2> QED
    BY <1>2, <2>2, <2>3, <2>4 DEF Task
<1>5. ASSUME NEW t \in Tasks, ~hit(t) PROVE task'[t] = task[t]
  BY <1>1, <1>5
<1>6. task' \in [Tasks -> Task \cup {NoTask}]
  <2>1. ASSUME NEW t \in Tasks PROVE task'[t] \in Task \cup {NoTask}
    <3>1. CASE hit(t)
      BY <1>3, <1>4, <3>1
    <3>2. CASE ~hit(t)
      BY <1>5, <3>2 DEF IInv, TypeOK
    <3> QED
      BY <3>1, <3>2
  <2>2. task' = [t \in Tasks |-> task'[t]]
    BY <1>1
  <2> QED
    BY <2>1, <2>2
<1>7. ASSUME NEW t \in Rows'
      PROVE  \/ /\ Kept(t)
                /\ task'[t].key = task[t].key /\ task'[t].written = task[t].written
             \/ /\ task'[t].ticket = 0
                /\ \E k \in listed : row[k] = t /\ task'[t].key = k /\ Known(k) = {}
  <2>1. t \in Tasks /\ task'[t] # NoTask
    BY DEF Rows
  <2>2. CASE ~hit(t)
    BY <1>5, <2>1, <2>2 DEF Kept, Rows
  <2>3. CASE hit(t) /\ t \in Rows
    BY <1>3, <2>3 DEF Kept
  <2>4. CASE hit(t) /\ t \notin Rows
    BY <1>4, <2>4
  <2> QED
    BY <2>2, <2>3, <2>4
<1>8. OneTaskPerKey'
  <2> SUFFICES ASSUME NEW t \in Rows', NEW u \in Rows', task'[t].key # None,
                      task'[t].key = task'[u].key, ~task'[t].written, ~task'[u].written
               PROVE  t = u
    BY DEF OneTaskPerKey
  <2> DEFINE old(v) == /\ v \in Rows /\ task'[v].key = task[v].key
                       /\ task'[v].written = task[v].written
             fresh(v) == \E k \in listed : row[k] = v /\ task'[v].key = k /\ Known(k) = {}
  <2>1. (old(t) \/ fresh(t)) /\ (old(u) \/ fresh(u))
    BY <1>7 DEF Kept
  <2>2. CASE old(t) /\ old(u)
    BY <2>2 DEF IInv, BoardInv, OneTaskPerKey
  <2>3. CASE fresh(t) /\ fresh(u)
    BY <2>3
  <2>4. CASE old(t) /\ fresh(u)
    BY <2>4 DEF Known
  <2>5. CASE fresh(t) /\ old(u)
    BY <2>5 DEF Known
  <2> QED
    BY <2>1, <2>2, <2>3, <2>4, <2>5
<1> HIDE DEF listed, hit
<1> QED
  BY <1>6, <1>7, <1>8

\* The stamp taken is the present one.
LEMMA SyncStatStep == ASSUME IInv, SyncStat PROVE IInv'
<1> USE TaskAssumption
<1>1. /\ stat' = file.version
      /\ file.version # 0
      /\ UNCHANGED <<board, ops, file, hash, imported, unread>>
  BY DEF SyncStat
<1>2. stat' \in 1..MaxVersions
  BY <1>1, FileTypes DEF IInv
<1>3. TypeOK'
  BY <1>1, <1>2 DEF IInv, TypeOK, board
<1>4. StampsPast' /\ WriteFits' /\ HashIsHonest'
  BY <1>1, FileTypes DEF IInv, StampsPast, WriteFits, HashIsHonest
<1> QED
  BY <1>1, <1>3, <1>4, BoardUnchanged DEF IInv, board

\* Whether the copying succeeds, fails or finds nothing to read, the stored
\* stamp is that of an earlier look at the file, and the version read is the
\* present one.
LEMMA SyncReadStep ==
    ASSUME IInv, NEW readable \in BOOLEAN, SyncRead(readable)
    PROVE  IInv'
<1> USE TaskAssumption
<1>1. /\ stat \in 1..MaxVersions /\ stat <= file.version
      /\ stat' = Unset /\ hash' = stat
      /\ SyncCompany
      /\ UNCHANGED <<reviews, ops, file>>
  BY FileTypes DEF SyncRead, IInv, StampsPast
<1>2. /\ task' \in [Tasks -> Task \cup {NoTask}]
      /\ \A t \in Rows' : Kept(t) \/ task'[t].ticket = 0
      /\ OneTaskPerKey'
      /\ \/ imported' = file.version /\ unread' = unread
         \/ unread' = file.version /\ imported' = imported
  <2>1. CASE readable /\ ~file.torn
    <3>1. Upsert(file.tasks) /\ imported' = file.version /\ unread' = unread
      BY <2>1 DEF SyncRead
    <3>2. file.tasks \in [Keys -> Reported \cup {None}]
      BY FileTypes DEF IInv
    <3> QED
      BY <3>1, <3>2, UpsertStep
  <2>2. CASE ~(readable /\ ~file.torn)
    <3>1. UNCHANGED <<task, imported>> /\ unread' = file.version
      BY <2>2 DEF SyncRead
    <3> QED
      BY <3>1 DEF IInv, TypeOK, BoardInv, OneTaskPerKey, Kept, Rows
  <2> QED
    BY <2>1, <2>2
<1>3. /\ project' \in [Projects -> Project]
      /\ CountersBounded' /\ ProjectsStay /\ project'[General].status = "active"
  BY <1>1, CompanySynced
<1>4. file.version \in 0..MaxVersions
  BY FileTypes DEF IInv
<1>5. imported' \in 0..MaxVersions /\ unread' \in 0..MaxVersions
  BY <1>2, <1>4 DEF IInv, TypeOK
<1>6. hash' \in 0..MaxVersions
  BY <1>1
<1>7. TypeOK'
  BY <1>1, <1>2, <1>3, <1>5, <1>6 DEF IInv, TypeOK
<1>8. BoardInv'
  BY <1>2, <1>3, <1>7, NothingAllocated
<1>9. StampsPast' /\ WriteFits' /\ HashIsHonest'
  BY <1>1, <1>2 DEF IInv, StampsPast, WriteFits, HashIsHonest
<1> QED
  BY <1>7, <1>8, <1>9 DEF IInv

\* A transaction that fails leaves rows and stamps alone.
LEMMA SyncThrowsStep == ASSUME IInv, SyncThrows PROVE IInv'
<1>1. /\ stat' = Unset
      /\ SyncCompany
      /\ UNCHANGED <<task, reviews, ops, file, hash, imported, unread>>
  BY DEF SyncThrows
<1>2. /\ project' \in [Projects -> Project]
      /\ CountersBounded' /\ ProjectsStay /\ project'[General].status = "active"
  BY <1>1, CompanySynced
<1>3. TypeOK'
  BY <1>1, <1>2 DEF IInv, TypeOK
<1>4. (\A t \in Rows' : Kept(t)) /\ OneTaskPerKey'
  BY <1>1 DEF IInv, BoardInv, OneTaskPerKey, Kept, Rows
<1>5. BoardInv'
  BY <1>2, <1>3, <1>4, NothingAllocated
<1>6. StampsPast' /\ WriteFits' /\ HashIsHonest'
  BY <1>1 DEF IInv, StampsPast, WriteFits, HashIsHonest
<1> QED
  BY <1>3, <1>5, <1>6 DEF IInv

\* A restart forgets the stamps.
LEMMA RestartStep == ASSUME IInv, Restart PROVE IInv'
<1> USE TaskAssumption
<1>1. hash' = 0 /\ stat' = Unset /\ UNCHANGED <<board, ops, file, imported, unread>>
  BY DEF Restart
<1>2. TypeOK'
  BY <1>1 DEF IInv, TypeOK, board
<1>3. StampsPast' /\ WriteFits' /\ HashIsHonest'
  BY <1>1, FileTypes DEF IInv, StampsPast, WriteFits, HashIsHonest
<1> QED
  BY <1>1, <1>2, <1>3, BoardUnchanged DEF IInv, board

\* Nothing happens.
LEMMA StutterStep == ASSUME IInv, UNCHANGED vars PROVE IInv'
<1>1. TypeOK'
  BY DEF IInv, TypeOK, vars, board, sync
<1>2. StampsPast' /\ WriteFits' /\ HashIsHonest'
  BY DEF IInv, StampsPast, WriteFits, HashIsHonest, vars, sync
<1> QED
  BY <1>1, <1>2, BoardUnchanged DEF IInv, vars, board

---------------------------------------------------------------------------
(* The theorems *)

\* One case for each part of the next-state relation.
LEMMA Inductive == IInv /\ [Next]_vars => IInv'
<1> SUFFICES ASSUME IInv, [Next]_vars PROVE IInv'
  OBVIOUS
<1>1. CASE Request
  BY <1>1, RequestStep
<1>2. CASE Conductor
  BY <1>2, BeginWriteStep, EndWriteStep DEF Conductor
<1>3. CASE Synchronise
  BY <1>3, SyncStatStep, SyncReadStep, SyncThrowsStep, RestartStep DEF Synchronise
<1>4. CASE UNCHANGED vars
  BY <1>4, StutterStep
<1> QED
  BY <1>1, <1>2, <1>3, <1>4 DEF Next

\* The inductive invariant holds in every state.
LEMMA Invariance == Spec => []IInv
  BY InitIInv, Inductive, PTL DEF Spec

\* Rows, projects, requests and stamps have their types, whatever handlers and
\* synchronisations do.
THEOREM TypeCorrect == Spec => []TypeOK
<1>1. IInv => TypeOK
  BY DEF IInv
<1> QED
  BY <1>1, Invariance, PTL

\* The counter of a project never gives a ticket number that a task of the
\* project still has, for any number of projects, moves and deletions.
THEOREM TicketsStayUnique == Spec => []TicketsUnique
<1>1. IInv => TicketsUnique
  BY DEF IInv, BoardInv
<1> QED
  BY <1>1, Invariance, PTL

\* However often the file of the Conductor is read, and whatever requests do
\* between two readings: of the rows with one conductor_id, one at most has it from
\* the synchronisation.  A conductor_id that a request wrote may be there twice.
THEOREM KeysStayUnique == Spec => []OneTaskPerKey
<1>1. IInv => OneTaskPerKey
  BY DEF IInv, BoardInv
<1> QED
  BY <1>1, Invariance, PTL

\* The synchronisation passes over a version of the file only after it was
\* read, or after reading that very version failed.
THEOREM HashStaysHonest == Spec => []HashIsHonest
<1>1. IInv => HashIsHonest
  BY DEF IInv
<1> QED
  BY <1>1, Invariance, PTL

---------------------------------------------------------------------------
(* The quality gate *)

\* A task of the board that is not done is moved to done only if its last
\* review approves.
Gated ==
    \A t \in Rows :
        task[t].status # "done" /\ task'[t] # NoTask /\ task'[t].status = "done"
        => "approved" \in reviews'[t]

\* A step that changes one row passes the gate if that row does.
LEMMA OneRowGated ==
    ASSUME TypeOK, NEW t \in Tasks, NEW row, task' = [task EXCEPT ![t] = row],
           t \in Rows /\ row # NoTask /\ task[t].status # "done" /\ row.status = "done"
             => "approved" \in reviews'[t]
    PROVE  Gated
  BY DEF TypeOK, Gated, Rows

\* POST /api/tasks and POST /api/github make a row that was not there; DELETE
\* leaves none.
LEMMA NewRowsGated ==
    ASSUME TypeOK, NEW t \in Tasks
    PROVE  /\ \A status, agent, p, key : CreateTask(t, status, agent, p, key) => Gated
           /\ \A closed, agent : ImportIssue(t, closed, agent) => Gated
           /\ DeleteTask(t) => Gated
<1>1. ASSUME NEW row, t \notin Rows, task' = [task EXCEPT ![t] = row] PROVE Gated
  BY <1>1, OneRowGated
<1>2. ASSUME NEW status, NEW agent, NEW p, NEW key, CreateTask(t, status, agent, p, key)
      PROVE  Gated
  BY <1>1, <1>2 DEF CreateTask
<1>3. ASSUME NEW closed, NEW agent, ImportIssue(t, closed, agent) PROVE Gated
  BY <1>1, <1>3 DEF ImportIssue
<1>4. ASSUME DeleteTask(t) PROVE Gated
  BY <1>4, OneRowGated DEF DeleteTask
<1> QED
  BY <1>2, <1>3, <1>4

\* PUT /api/tasks/[id] checks the status that it is about to store, which may
\* be the one the row has.
LEMMA UpdateTaskGated ==
    ASSUME TypeOK, NEW t \in Tasks, NEW status, NEW agent, NEW p, NEW key,
           UpdateTask(t, status, agent, p, key)
    PROVE  Gated
<1> DEFINE old == task[t]
           new == NormalizeUpdate(old.status, ParsedStatus(status), agent)
           moves == p \notin {Unset, old.project}
           row == [status  |-> new,
                   agent   |-> IF agent = Unset THEN old.agent ELSE agent,
                   project |-> IF p = Unset THEN old.project ELSE p,
                   ticket  |-> IF moves THEN Ticket(p) ELSE old.ticket,
                   key     |-> key,
                   moved   |-> old.moved /\ ~moves,
                   written |-> old.written \/ key # old.key]
<1>1. GatePassed(t, new) /\ task' = [task EXCEPT ![t] = row] /\ reviews' = reviews
  BY DEF UpdateTask
<1>2. row.status = new
  OBVIOUS
<1> HIDE DEF row, new
<1> QED
  BY <1>1, <1>2, OneRowGated DEF GatePassed, HasAegisApproval

\* PUT /api/tasks checks every task that it moves.
LEMMA BulkUpdateGated ==
    ASSUME TypeOK, NEW S \in SUBSET Tasks, NEW move \in [S -> Requested], BulkUpdate(move)
    PROVE  Gated
<1> SUFFICES ASSUME NEW t \in Rows, task[t].status # "done", task'[t] # NoTask,
                    task'[t].status = "done"
             PROVE  "approved" \in reviews'[t]
  BY DEF Gated
<1>1. t \in Tasks /\ task[t] \in Task
  BY RowTypes
<1>2. CASE t \in S
  <2>1. GatePassed(t, move[t]) /\ task'[t] = [task[t] EXCEPT !.status = move[t]]
        /\ reviews' = reviews
    BY <1>1, <1>2 DEF BulkUpdate
  <2>2. [task[t] EXCEPT !.status = move[t]].status = move[t]
    BY <1>1 DEF Task
  <2> QED
    BY <2>1, <2>2 DEF GatePassed, HasAegisApproval
<1>3. CASE t \notin S
  BY <1>1, <1>3 DEF BulkUpdate
<1> QED
  BY <1>2, <1>3

\* The queue starts tasks, a review that approves is itself the approval, and
\* a pipeline run never ends a task.
LEMMA OtherMovesGated ==
    ASSUME TypeOK
    PROVE  /\ \A agent : PollQueue(agent) => Gated
           /\ \A t \in Tasks, verdict \in {"approved", "rejected"}, sameSecond \in BOOLEAN :
                AegisReview(t, verdict, sameSecond) => Gated
           /\ \A t \in Tasks : \A status : PipelineMoves(t, status) => Gated
<1>1. \A t \in Rows : \A status : [task[t] EXCEPT !.status = status].status = status
  BY RowTypes DEF Task
<1>2. ASSUME NEW agent, PollQueue(agent) PROVE Gated
  <2>1. PICK t \in Rows :
          task' = [task EXCEPT ![t].status = "in_progress", ![t].agent = agent]
    BY <1>2 DEF PollQueue
  <2>2. [task[t] EXCEPT !.status = "in_progress", !.agent = agent].status = "in_progress"
    BY RowTypes DEF Task
  <2>3. task' = [task EXCEPT ![t] = [task[t] EXCEPT !.status = "in_progress", !.agent = agent]]
    BY <2>1, RowTypes DEF TypeOK
  <2> QED
    BY <2>2, <2>3, OneRowGated, RowTypes
<1>3. ASSUME NEW t \in Tasks, NEW verdict \in {"approved", "rejected"},
             NEW sameSecond \in BOOLEAN,
             AegisReview(t, verdict, sameSecond)
      PROVE  Gated
  <2>1. CASE verdict = "approved"
    <3>1. "approved" \in reviews'[t]
      BY <1>3, <2>1 DEF AegisReview, TypeOK
    <3>2. task' = [task EXCEPT ![t] = [task[t] EXCEPT !.status = "done"]]
      BY <1>3, <2>1 DEF AegisReview
    <3> QED
      BY <3>1, <3>2, OneRowGated
  <2>2. CASE verdict # "approved"
    BY <1>3, <2>2 DEF AegisReview, Gated
  <2> QED
    BY <2>1, <2>2
<1>4. ASSUME NEW t \in Tasks, NEW status, PipelineMoves(t, status) PROVE Gated
  <2>1. t \in Rows /\ status # "done" /\ task' = [task EXCEPT ![t] = [task[t] EXCEPT !.status = status]]
    BY <1>4 DEF PipelineMoves
  <2> QED
    BY <1>1, <2>1, OneRowGated
<1> QED
  BY <1>2, <1>3, <1>4

\* The routes of projects leave every status as it is.
LEMMA ProjectsGated ==
    ASSUME TypeOK, NEW p \in Projects
    PROVE  /\ CreateProject(p) => Gated
           /\ \A status : SetProjectStatus(p, status) => Gated
           /\ DeleteProject(p) => Gated
<1>1. task' = task => Gated
  BY DEF Gated
<1>2. ASSUME DeleteProject(p) PROVE Gated
  <2>1. \A t \in Rows : [task[t] EXCEPT !.project = General, !.moved = TRUE].status = task[t].status
    BY RowTypes DEF Task
  <2>2. \A t \in Rows : task'[t] \in {task[t], [task[t] EXCEPT !.project = General, !.moved = TRUE]}
    BY <1>2, RowTypes DEF DeleteProject
  <2> QED
    BY <2>1, <2>2 DEF Gated
<1> QED
  BY <1>1, <1>2 DEF CreateProject, SetProjectStatus

LEMMA RequestGated == ASSUME TypeOK, Request PROVE Gated
<1>1. CASE \E t \in Tasks, agent \in Agents \cup {None} :
             \/ \E status \in Requested, p \in Projects \cup {Unset},
                   key \in Keys \cup {None} : CreateTask(t, status, agent, p, key)
             \/ \E closed \in BOOLEAN : ImportIssue(t, closed, agent)
  BY <1>1, NewRowsGated
<1>2. CASE \E t \in Tasks, status \in Requested \cup {Unset},
              agent \in Agents \cup {None, Unset}, p \in Projects \cup {Unset},
              key \in Keys \cup {None} : UpdateTask(t, status, agent, p, key)
  BY <1>2, UpdateTaskGated
<1>3. CASE \E t \in Tasks : DeleteTask(t)
  BY <1>3, NewRowsGated
<1>4. CASE \E S \in SUBSET Tasks : \E move \in [S -> Requested] : BulkUpdate(move)
  BY <1>4, BulkUpdateGated
<1>5. CASE \E agent \in Agents : PollQueue(agent)
  BY <1>5, OtherMovesGated
<1>6. CASE \E t \in Tasks, verdict \in {"approved", "rejected"}, sameSecond \in BOOLEAN :
             AegisReview(t, verdict, sameSecond)
  BY <1>6, OtherMovesGated
<1>7. CASE \E t \in Tasks, status \in {"in_progress", "quality_review"} :
             PipelineMoves(t, status)
  BY <1>7, OtherMovesGated
<1>8. CASE \E p \in Projects :
             \/ CreateProject(p) \/ DeleteProject(p)
             \/ \E status \in {"active", "archived"} : SetProjectStatus(p, status)
  BY <1>8, ProjectsGated
<1> QED
  BY <1>1, <1>2, <1>3, <1>4, <1>5, <1>6, <1>7, <1>8 DEF Request

\* Whichever route moves a task of the board to done - one task, a list of
\* them, the queue, a pipeline run, a change of its project - an approval by
\* Aegis is its last review; only reading the Conductor's file is no such route.
THEOREM GateStaysShut == Spec => GateHonoured
<1>1. IInv /\ [Next]_vars =>
        [stat = Unset => \A t \in Rows :
           task[t].status # "done" /\ task'[t] # NoTask /\ task'[t].status = "done"
           => "approved" \in reviews'[t]]_vars
  <2> SUFFICES ASSUME IInv, [Next]_vars, stat = Unset PROVE Gated
    BY DEF Gated
  <2>1. CASE Request
    BY <2>1, RequestGated DEF IInv
  <2>2. CASE task' = task
    BY <2>2 DEF Gated
  <2> QED
    BY <2>1, <2>2 DEF Next, Conductor, BeginWrite, EndWrite, Synchronise, SyncStat, SyncRead,
       SyncThrows, Restart, vars, board
<1> QED
  BY <1>1, Inductive, InitIInv, PTL DEF Spec, GateHonoured
=============================================================================
