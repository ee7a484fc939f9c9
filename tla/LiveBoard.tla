------------------------------ MODULE LiveBoard ------------------------------
(***************************************************************************)
(* The task board in a browser as a copy of the tasks table: the stream of *)
(* events (src/lib/event-bus.ts, api/events, src/lib/use-server-events.ts), *)
(* the polling that stands in for it (src/lib/use-smart-poll.ts), the store *)
(* (src/store/index.ts) and the fetches and drags of                       *)
(* components/panels/task-board-panel.tsx.                                 *)
(*                                                                         *)
(* The handlers of the server are single steps; what TaskBoard.tla says of *)
(* them is reduced here to the status they set and the event they send, or *)
(* do not send.  Everything between browser and server takes its time: the *)
(* stream, a fetch of all tasks, and the two requests of a drop.           *)
(***************************************************************************)
EXTENDS Naturals, FiniteSets, Sequences

CONSTANTS
    Tasks,        \* task ids; none is used again (AUTOINCREMENT)
    Status,
    Done,         \* the status that needs an approval
    None,
    Fetches,      \* bound: fetches in flight
    Drops,        \* bound: drops in flight
    MaxAttempts,  \* SSE_MAX_RECONNECT_ATTEMPTS
    MaxChanges    \* bound: changes of the table and drops

Unborn == "unborn"
Gone == "gone"

ASSUME BoardAssumption ==
    /\ IsFiniteSet(Tasks)
    /\ Done \in Status
    /\ Unborn \notin Status /\ Gone \notin Status
    /\ None \notin Status \cup Tasks
    /\ MaxAttempts \in Nat
    /\ MaxChanges \in Nat

VARIABLES
    row,       \* status of a task in the table
    served,    \* the server has a listener for the stream of the page
    wire,      \* events on their way to the page
    src,       \* eventSourceRef
    timer,     \* reconnectTimeoutRef
    attempts,  \* sseReconnectAttemptsRef
    sse,       \* connection.sseConnected of the store
    page,      \* the page is mounted
    panel,     \* the task board is mounted
    visible,   \* isVisibleRef
    polling,   \* intervalRef
    loading,   \* the board shows "Loading tasks..."
    shown,     \* the statuses on the cards of a task in the store
    fetch,     \* fetchData in flight
    drag,      \* draggedTask
    drop,      \* handleDrop in flight
    changes,   \* changes of the table and drops so far
    had,       \* statuses a task had in the table (history)
    crossed    \* tasks dragged while a drop of them was in flight (history)

table == <<row, had>>
stream == <<served, wire, src, timer, attempts, sse>>
poll == <<panel, visible, polling>>
dragging == <<drag, drop, crossed>>
vars == <<table, stream, page, poll, loading, shown, fetch, dragging, changes>>

Rows == Status \cup {Unborn, Gone}
Event ==
    [kind : {"created", "status"}, task : Tasks, status : Status]
        \cup [kind : {"deleted"}, task : Tasks]
\* live: the panel that began it is still there
NoFetch == [phase |-> "idle"]
Asked == [phase |-> "asked", live |-> TRUE]
Fetch == [phase : {"asked"}, live : BOOLEAN]
           \cup [phase : {"read"}, live : BOOLEAN, rows : [Tasks -> Rows]]
NoDrop == [phase |-> "idle"]
Drop == [phase : {"review", "put", "ok"}, task : Tasks,
         from : Status, to : Status, live : BOOLEAN]
Drag == [task : Tasks, status : Status]

TypeOK ==
    /\ row \in [Tasks -> Rows]
    /\ served \in BOOLEAN
    /\ wire \in Seq(Event)
    /\ src \in {"none", "connecting", "open"}
    /\ timer \in BOOLEAN
    /\ attempts \in 0..MaxAttempts
    /\ sse \in BOOLEAN
    /\ page \in BOOLEAN /\ panel \in BOOLEAN /\ visible \in BOOLEAN /\ polling \in BOOLEAN
    /\ loading \in BOOLEAN
    /\ shown \in [Tasks -> SUBSET Status]
    /\ fetch \in [Fetches -> Fetch \cup {NoFetch}]
    /\ drag \in Drag \cup {None}
    /\ drop \in [Drops -> Drop \cup {NoDrop}]
    /\ changes \in 0..MaxChanges
    /\ had \in [Tasks -> SUBSET Status]
    /\ crossed \subseteq Tasks

Exists(t) == row[t] \in Status

Init ==
    /\ row \in [Tasks -> Status \cup {Unborn}]
    /\ served = FALSE
    /\ wire = <<>>
    /\ src = "none"
    /\ timer = FALSE
    /\ attempts = 0
    /\ sse = FALSE
    /\ page = FALSE /\ panel = FALSE /\ visible = FALSE /\ polling = FALSE
    /\ loading = FALSE
    /\ shown = [t \in Tasks |-> {}]
    /\ fetch = [f \in Fetches |-> NoFetch]
    /\ drag = None
    /\ drop = [d \in Drops |-> NoDrop]
    /\ changes = 0
    /\ had = [t \in Tasks |-> IF Exists(t) THEN {row[t]} ELSE {}]
    /\ crossed = {}

---------------------------------------------------------------------------
(* The server *)

Change ==
    /\ changes < MaxChanges
    /\ changes' = changes + 1

\* eventBus.broadcast: whoever listens now gets the event.
Broadcast(e) == wire' = IF served THEN Append(wire, e) ELSE wire

StatusEvent(t, s) == [kind |-> "status", task |-> t, status |-> s]

Set(t, s) ==
    /\ row' = [row EXCEPT ![t] = s]
    /\ had' = [had EXCEPT ![t] = @ \cup ({s} \cap Status)]

browser == <<src, timer, attempts, sse, page, poll, loading, shown, fetch, dragging>>

\* POST /api/tasks and the import of issues; the Conductor and the Nimbus
\* integration make tasks without telling anybody.
Create(t, s, told) ==
    /\ Change
    /\ row[t] = Unborn
    /\ Set(t, s)
    /\ IF told THEN Broadcast([kind |-> "created", task |-> t, status |-> s])
       ELSE UNCHANGED wire
    /\ UNCHANGED <<served, browser>>

\* PUT /api/tasks/[id], an approval, the Conductor; the queue of the agents and
\* the pipelines set a status without telling anybody.
Update(t, s, told) ==
    /\ Change
    /\ Exists(t)
    /\ Set(t, s)
    /\ IF told THEN Broadcast(StatusEvent(t, s)) ELSE UNCHANGED wire
    /\ UNCHANGED <<served, browser>>

\* DELETE /api/tasks/[id]
Delete(t) ==
    /\ Change
    /\ Exists(t)
    /\ Set(t, Gone)
    /\ Broadcast([kind |-> "deleted", task |-> t])
    /\ UNCHANGED <<served, browser>>

\* GET /api/events
Serve ==
    /\ src = "connecting"
    /\ ~served
    /\ served' = TRUE
    /\ UNCHANGED <<table, wire, browser, changes>>

\* The stream ends at the server (a restart, a proxy, a link that goes mute),
\* which the page may find out late; what was under way is lost.
Sever ==
    /\ served
    /\ served' = FALSE
    /\ wire' = <<>>
    /\ UNCHANGED <<table, browser, changes>>

---------------------------------------------------------------------------
(* useSmartPoll with pauseWhenSseConnected *)

KeptInterval(there, inView, connected) == polling  \* mutant: the interval outlives its reasons

\* startInterval: the interval there was is cleared, and set again if shouldPoll.
Interval(there, inView, connected) == there /\ inView /\ ~connected

StartFetch(F) ==
    /\ \A f \in F : fetch[f] = NoFetch
    /\ fetch' = [f \in Fetches |-> IF f \in F THEN Asked ELSE fetch[f]]
    /\ loading' = (loading \/ F # {})

\* The panel and the hook each fetch when the panel is mounted.
OpenPanel(F) ==
    /\ page /\ ~panel
    /\ Cardinality(F) = 2
    /\ StartFetch(F)
    /\ panel' = TRUE
    /\ visible' = TRUE
    /\ polling' = Interval(TRUE, TRUE, sse)
    /\ UNCHANGED <<table, stream, page, shown, dragging, changes>>

Outlived(x) == IF x.phase = "idle" THEN x ELSE [x EXCEPT !.live = FALSE]

\* What is in flight goes on; the drag is forgotten.
Dismounted ==
    /\ panel' = FALSE
    /\ visible' = FALSE
    /\ polling' = FALSE
    /\ loading' = FALSE
    /\ drag' = None
    /\ fetch' = [f \in Fetches |-> Outlived(fetch[f])]
    /\ drop' = [d \in Drops |-> Outlived(drop[d])]

ClosePanel ==
    /\ panel
    /\ Dismounted
    /\ UNCHANGED <<table, stream, page, shown, crossed, changes>>

\* visibilitychange
Hide ==
    /\ panel /\ visible
    /\ visible' = FALSE
    /\ polling' = FALSE
    /\ UNCHANGED <<table, stream, page, panel, loading, shown, fetch, dragging, changes>>

\* visibilitychange: fetch at once unless the stream is up.
Show(f) ==
    /\ panel /\ ~visible
    /\ StartFetch(IF sse THEN {} ELSE {f})
    /\ visible' = TRUE
    /\ polling' = Interval(TRUE, TRUE, sse)
    /\ UNCHANGED <<table, stream, page, panel, shown, dragging, changes>>

\* The interval fires.
Poll(f) ==
    /\ polling
    /\ StartFetch({f})
    /\ UNCHANGED <<table, stream, page, poll, shown, dragging, changes>>

\* The button, or a form of the board whose request succeeded
Refresh(f) ==
    /\ panel
    /\ StartFetch({f})
    /\ UNCHANGED <<table, stream, page, poll, shown, dragging, changes>>

---------------------------------------------------------------------------
(* fetchData *)

Read(f) ==
    /\ fetch[f].phase = "asked"
    /\ fetch' = [fetch EXCEPT ![f] = [phase |-> "read", live |-> @.live, rows |-> row]]
    /\ UNCHANGED <<table, stream, page, poll, loading, shown, dragging, changes>>

Finished(f) ==
    /\ fetch' = [fetch EXCEPT ![f] = NoFetch]
    /\ loading' = (loading /\ ~fetch[f].live)

\* setTasks
Adopted(snapshot) == [t \in Tasks |-> {snapshot[t]} \cap Status]

\* The answers come in any order, after newer events, and to a store whose
\* panel may be gone.
Fetched(f) ==
    /\ fetch[f].phase = "read"
    /\ shown' = Adopted(fetch[f].rows)
    /\ Finished(f)
    /\ UNCHANGED <<table, stream, page, poll, dragging, changes>>

FetchFails(f) ==
    /\ fetch[f] # NoFetch
    /\ Finished(f)
    /\ UNCHANGED <<table, stream, page, poll, shown, dragging, changes>>

---------------------------------------------------------------------------
(* useServerEvents *)

MountPage ==
    /\ ~page
    /\ page' = TRUE
    /\ src' = "connecting"
    /\ attempts' = 0
    /\ UNCHANGED <<table, served, wire, timer, sse, poll, loading, shown, fetch, dragging, changes>>

LeftConnected == sse  \* mutant: the cleanup does not say that the stream is gone
Disconnected == FALSE

UnmountPage ==
    /\ page
    /\ page' = FALSE
    /\ src' = "none" /\ served' = FALSE /\ wire' = <<>>
    /\ timer' = FALSE
    /\ sse' = Disconnected
    /\ Dismounted
    /\ UNCHANGED <<table, attempts, shown, crossed, changes>>

\* onopen
Open ==
    /\ src = "connecting" /\ served
    /\ src' = "open"
    /\ attempts' = 0
    /\ sse' = TRUE
    /\ polling' = Interval(panel, visible, TRUE)
    /\ UNCHANGED <<table, served, wire, timer, page, panel, visible, loading, shown, fetch,
                   dragging, changes>>

NextAttempt == attempts' = attempts + 1 /\ timer' = TRUE  \* mutant: no last attempt

\* An attempt more, or none when they are used up.
TryAgain ==
    IF attempts < MaxAttempts
    THEN attempts' = attempts + 1 /\ timer' = TRUE
    ELSE UNCHANGED <<attempts, timer>>

\* onerror
StreamFails ==
    /\ src # "none"
    /\ src' = "none" /\ served' = FALSE /\ wire' = <<>>
    /\ sse' = FALSE
    /\ polling' = Interval(panel, visible, FALSE)
    /\ TryAgain
    /\ UNCHANGED <<table, page, panel, visible, loading, shown, fetch, dragging, changes>>

\* The timer of the next attempt fires.
Reconnect ==
    /\ timer
    /\ timer' = FALSE
    /\ src' = "connecting"
    /\ UNCHANGED <<table, served, wire, attempts, sse, page, poll, loading, shown, fetch,
                   dragging, changes>>

\* updateTask of the store: a card that is not there is not made.
Shown(t, s) == IF shown[t] = {} THEN shown ELSE [shown EXCEPT ![t] = {s}]

\* onmessage and dispatch.  addTask does not look for a card that is there.
Receive ==
    /\ src = "open" /\ wire # <<>>
    /\ LET e == Head(wire) IN
         shown' = CASE e.kind = "created" -> [shown EXCEPT ![e.task] = @ \cup {e.status}]
                    [] e.kind = "status"  -> Shown(e.task, e.status)
                    [] e.kind = "deleted" -> [shown EXCEPT ![e.task] = {}]
    /\ wire' = Tail(wire)
    /\ UNCHANGED <<table, served, src, timer, attempts, sse, page, poll, loading, fetch,
                   dragging, changes>>

---------------------------------------------------------------------------
(* Drag and drop *)

InFlight(t) == \E d \in Drops : drop[d] # NoDrop /\ drop[d].task = t

DragStart(t, s) ==
    /\ panel /\ ~loading
    /\ s \in shown[t]
    /\ drag' = [task |-> t, status |-> s]
    /\ crossed' = IF InFlight(t) THEN crossed \cup {t} ELSE crossed
    /\ UNCHANGED <<table, stream, page, poll, loading, shown, fetch, drop, changes>>

\* handleDrop up to its first request: the review, or the update, which is
\* shown before it is made.
DropOn(d, s) ==
    /\ panel /\ ~loading /\ drag # None
    /\ IF drag.status = s
       THEN drag' = None /\ UNCHANGED <<drop, shown, changes>>
       ELSE /\ Change
            /\ drop[d] = NoDrop
            /\ drop' = [drop EXCEPT ![d] =
                          [phase |-> IF s = Done THEN "review" ELSE "put", task |-> drag.task,
                           from |-> drag.status, to |-> s, live |-> TRUE]]
            /\ shown' = IF s = Done THEN shown ELSE Shown(drag.task, s)
            /\ UNCHANGED drag
    /\ UNCHANGED <<table, stream, page, poll, loading, fetch, crossed>>

Phase(d, phase) == drop[d] # NoDrop /\ drop[d].phase = phase

\* The last review is an approval.
Approved(d) ==
    /\ Phase(d, "review")
    /\ drop' = [drop EXCEPT ![d].phase = "put"]
    /\ shown' = Shown(drop[d].task, drop[d].to)
    /\ UNCHANGED <<table, stream, page, poll, loading, fetch, drag, crossed, changes>>

\* PUT /api/tasks: tasks that are gone are skipped and announced all the same.
PutServed(d) ==
    /\ Phase(d, "put")
    /\ IF Exists(drop[d].task) THEN Set(drop[d].task, drop[d].to) ELSE UNCHANGED table
    /\ Broadcast(StatusEvent(drop[d].task, drop[d].to))
    /\ drop' = [drop EXCEPT ![d].phase = "ok"]
    /\ UNCHANGED <<served, src, timer, attempts, sse, page, poll, loading, shown, fetch,
                   drag, crossed, changes>>

\* setDraggedTask(null), of another drag too
DropEnds(d) ==
    /\ drag' = IF drop[d].live THEN None ELSE drag
    /\ drop' = [drop EXCEPT ![d] = NoDrop]
    /\ UNCHANGED <<table, stream, page, poll, loading, fetch, crossed, changes>>

DropDone(d) ==
    /\ Phase(d, "ok")
    /\ DropEnds(d)
    /\ UNCHANGED shown

KeptOnFailure(d) == shown  \* mutant: what was shown ahead of the update stays

\* The catch of handleDrop goes back to what was shown when the drag began.
Reverted(d) == Shown(drop[d].task, drop[d].from)

\* There is no approval, a request is refused or lost, or an answer is lost.
DropFails(d) ==
    /\ drop[d] # NoDrop
    /\ DropEnds(d)
    /\ shown' = Reverted(d)

---------------------------------------------------------------------------
Next ==
    \/ \E t \in Tasks :
         \/ \E s \in Status :
              \/ \E told \in BOOLEAN : Create(t, s, told) \/ Update(t, s, told)
              \/ DragStart(t, s)
         \/ Delete(t)
    \/ Serve \/ Sever
    \/ \E F \in SUBSET Fetches : OpenPanel(F)
    \/ ClosePanel \/ Hide
    \/ \E f \in Fetches : Show(f) \/ Poll(f) \/ Refresh(f) \/ Read(f) \/ Fetched(f) \/ FetchFails(f)
    \/ MountPage \/ UnmountPage \/ Open \/ StreamFails \/ Reconnect \/ Receive
    \/ \E d \in Drops :
         \/ \E s \in Status : DropOn(d, s)
         \/ Approved(d) \/ PutServed(d) \/ DropDone(d) \/ DropFails(d)

Spec == Init /\ [][Next]_vars

\* The interval goes on, a drop comes to its end (its requests are answered or
\* fail), and of the fetches that are made again and again some are answered.
FairSpec ==
    /\ Spec
    /\ WF_vars(\E f \in Fetches : Poll(f))
    /\ \A d \in Drops : WF_vars(Approved(d) \/ PutServed(d) \/ DropDone(d) \/ DropFails(d))
    /\ SF_vars(\E f \in Fetches : Read(f))
    /\ SF_vars(\E f \in Fetches : Fetched(f))

---------------------------------------------------------------------------
(* Properties *)

Ahead(t) == {drop[d].to : d \in {x \in Drops :
                drop[x] # NoDrop /\ drop[x].task = t /\ drop[x].phase # "review"}}

\* A card never shows a status its task did not have, but for a drop that is not
\* answered yet, however late events, fetches and answers come in: a drop that
\* fails goes back to a status the task had.  (A task that is dragged again while
\* a drop of it is in flight may be left with what the first drop showed.)
ShownWasTrue ==
    \A t \in Tasks : Exists(t) /\ t \notin crossed => shown[t] \subseteq had[t] \cup Ahead(t)

\* "Poll as SSE fallback": a board that is looked at has the stream or polls,
\* and the stream is said to be up only while it is; a page without a stream
\* tries again unless the attempts are used up.
NewsHasASource ==
    /\ panel /\ visible => sse \/ polling
    /\ sse => page /\ src = "open"
    /\ page /\ src = "none" => timer \/ attempts = MaxAttempts

ShowsTable == \A t \in Tasks : shown[t] = {row[t]} \cap Status

\* A board that stays in view without a stream agrees with the table at last,
\* whatever old answers and failing drops did to it.
PollingCatchesUp ==
    <>[](panel /\ visible /\ ~sse) => <>[]ShowsTable
=============================================================================
