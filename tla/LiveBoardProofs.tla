--------------------------- MODULE LiveBoardProofs ---------------------------
(***************************************************************************)
(* Proofs about LiveBoard: for every set of tasks, statuses, fetches and    *)
(* drops and any number of attempts and changes, a card shows only what its *)
(* task was, and a board that is looked at has the stream or polls.        *)
(***************************************************************************)
EXTENDS LiveBoard, SequenceTheorems, FiniteSetTheorems, TLAPS

\* A timer belongs to a page that has no stream, a stream to a page.
StreamIsOwned ==
    /\ timer => page /\ src = "none"
    /\ src # "none" => page

Link == StreamIsOwned /\ NewsHasASource

Born(t) == row[t] # Unborn
WasSo(t, s) == Exists(t) => s \in had[t]

RowIsHad == \A t \in Tasks : WasSo(t, row[t])

EventWasTrue(e) == Born(e.task) /\ (e.kind # "deleted" => WasSo(e.task, e.status))
WireWasTrue == \A i \in DOMAIN wire : EventWasTrue(wire[i])

FetchWasTrue ==
    \A f \in Fetches : fetch[f].phase = "read" =>
        \A t \in Tasks : fetch[f].rows[t] \in Status => Born(t) /\ WasSo(t, fetch[f].rows[t])

ShownIsBorn == \A t \in Tasks : shown[t] # {} => Born(t)

DragWasTrue ==
    drag # None => Born(drag.task) /\ (drag.task \notin crossed => WasSo(drag.task, drag.status))

\* from: what a failure goes back to; to: what a success leaves behind.
DropWasTrue ==
    \A d \in Drops : drop[d] # NoDrop =>
        /\ Born(drop[d].task)
        /\ drop[d].task \notin crossed => WasSo(drop[d].task, drop[d].from)
        /\ drop[d].phase = "ok" => WasSo(drop[d].task, drop[d].to)

Truth ==
    /\ RowIsHad /\ WireWasTrue /\ FetchWasTrue
    /\ ShownIsBorn /\ DragWasTrue /\ DropWasTrue /\ ShownWasTrue

IInv == TypeOK /\ Link /\ Truth

---------------------------------------------------------------------------
(* Types *)

LEMMA Shapes ==
    ASSUME TypeOK
    PROVE  /\ \A d \in Drops : drop[d] # NoDrop => drop[d] \in Drop
           /\ \A f \in Fetches : fetch[f].phase \in {"idle", "asked", "read"}
           /\ \A f \in Fetches : fetch[f].phase = "read" =>
                fetch[f].rows \in [Tasks -> Rows] /\ fetch[f].live \in BOOLEAN
           /\ \A f \in Fetches : fetch[f] # NoFetch => fetch[f].live \in BOOLEAN
           /\ drag # None => drag \in Drag
           /\ \A s \in Status, t \in Tasks : StatusEvent(t, s) \in Event
<1>1. \A f \in Fetches : fetch[f] \in Fetch \/ fetch[f] = NoFetch
  BY DEF TypeOK
<1>2. NoFetch.phase = "idle"
  BY DEF NoFetch
<1> QED
  BY <1>1, <1>2 DEF TypeOK, Fetch, StatusEvent, Event

LEMMA SetTypes ==
    ASSUME TypeOK, NEW t \in Tasks, NEW s \in Rows, Set(t, s)
    PROVE  row' \in [Tasks -> Rows] /\ had' \in [Tasks -> SUBSET Status]
BY DEF TypeOK, Set

LEMMA BroadcastTypes ==
    ASSUME TypeOK, NEW e \in Event, Broadcast(e) \/ UNCHANGED wire
    PROVE  wire' \in Seq(Event)
BY DEF TypeOK, Broadcast

LEMMA NoEvents == <<>> \in Seq(Event)
BY EmptySeq

LEMMA ChangeTypes == ASSUME TypeOK, Change PROVE changes' \in 0..MaxChanges
BY BoardAssumption DEF TypeOK, Change

LEMMA ServerTypes ==
    ASSUME TypeOK, NEW t \in Tasks, NEW s \in Status, NEW told \in BOOLEAN,
           Create(t, s, told) \/ Update(t, s, told) \/ Delete(t) \/ Serve \/ Sever
    PROVE  TypeOK'
<1>1. CASE Create(t, s, told)
  <2>1. [kind |-> "created", task |-> t, status |-> s] \in Event
    BY DEF Event
  <2> QED
    BY <1>1, <2>1, SetTypes, BroadcastTypes, ChangeTypes
       DEF Create, TypeOK, browser, poll, dragging, Rows
<1>2. CASE Update(t, s, told)
  BY <1>2, Shapes, SetTypes, BroadcastTypes, ChangeTypes
     DEF Update, TypeOK, browser, poll, dragging, Rows
<1>3. CASE Delete(t)
  <2>1. [kind |-> "deleted", task |-> t] \in Event /\ Gone \in Rows
    BY DEF Event, Rows
  <2> QED
    BY <1>3, <2>1, SetTypes, BroadcastTypes, ChangeTypes DEF Delete, TypeOK, browser, poll, dragging
<1>4. CASE Serve \/ Sever
  BY <1>4, NoEvents DEF Serve, Sever, TypeOK, table, browser, poll, dragging
<1> QED
  BY <1>1, <1>2, <1>3, <1>4

LEMMA StartFetchTypes ==
    ASSUME TypeOK, NEW F \in SUBSET Fetches, StartFetch(F)
    PROVE  fetch' \in [Fetches -> Fetch \cup {NoFetch}] /\ loading' \in BOOLEAN
<1>1. Asked \in Fetch
  BY DEF Asked, Fetch
<1> QED
  BY <1>1 DEF TypeOK, StartFetch

LEMMA DismountedTypes ==
    ASSUME TypeOK, Dismounted
    PROVE  /\ panel' = FALSE /\ visible' = FALSE /\ polling' = FALSE /\ loading' = FALSE
           /\ drag' = None
           /\ fetch' \in [Fetches -> Fetch \cup {NoFetch}]
           /\ drop' \in [Drops -> Drop \cup {NoDrop}]
           /\ \A f \in Fetches : /\ fetch'[f].phase = fetch[f].phase
                                 /\ fetch[f].phase = "read" => fetch'[f].rows = fetch[f].rows
           /\ \A d \in Drops : /\ drop'[d] = NoDrop <=> drop[d] = NoDrop
                               /\ drop[d] # NoDrop =>
                                    /\ drop'[d].phase = drop[d].phase
                                    /\ drop'[d].task = drop[d].task
                                    /\ drop'[d].from = drop[d].from
                                    /\ drop'[d].to = drop[d].to
<1>1. \A x \in Fetch : /\ Outlived(x) \in Fetch
                       /\ Outlived(x).phase = x.phase
                       /\ x.phase = "read" => Outlived(x).rows = x.rows
  BY DEF Outlived, Fetch
<1>2. Outlived(NoFetch) = NoFetch /\ Outlived(NoDrop) = NoDrop /\ NoFetch.phase = "idle"
  BY DEF Outlived, NoFetch, NoDrop
<1>3. \A x \in Drop : /\ Outlived(x) \in Drop
                      /\ Outlived(x).phase = x.phase /\ Outlived(x).task = x.task
                      /\ Outlived(x).from = x.from /\ Outlived(x).to = x.to
  BY DEF Outlived, Drop
<1>4. \A x \in Drop : x # NoDrop
  BY DEF Drop, NoDrop
<1>5. \A f \in Fetches : (fetch[f] \in Fetch \/ fetch[f] = NoFetch) /\ fetch'[f] = Outlived(fetch[f])
  BY DEF TypeOK, Dismounted
<1>6. \A d \in Drops : (drop[d] \in Drop \/ drop[d] = NoDrop) /\ drop'[d] = Outlived(drop[d])
  BY DEF TypeOK, Dismounted
<1>7. fetch' \in [Fetches -> Fetch \cup {NoFetch}]
  BY <1>1, <1>2, <1>5 DEF Dismounted
<1>8. drop' \in [Drops -> Drop \cup {NoDrop}]
  BY <1>2, <1>3, <1>6 DEF Dismounted
<1>9. \A f \in Fetches : /\ fetch'[f].phase = fetch[f].phase
                         /\ fetch[f].phase = "read" => fetch'[f].rows = fetch[f].rows
  BY <1>1, <1>2, <1>5
<1> QED
  BY <1>2, <1>3, <1>4, <1>6, <1>7, <1>8, <1>9 DEF Dismounted

LEMMA PollTypes ==
    ASSUME TypeOK, NEW F \in SUBSET Fetches, NEW f \in Fetches,
           \/ OpenPanel(F) \/ ClosePanel \/ Hide
           \/ Show(f) \/ Poll(f) \/ Refresh(f)
    PROVE  TypeOK'
<1>1. CASE OpenPanel(F)
  BY <1>1, StartFetchTypes DEF OpenPanel, Interval, TypeOK, table, stream, dragging
<1>2. CASE ClosePanel
  BY <1>2, DismountedTypes DEF ClosePanel, TypeOK, table, stream
<1>3. CASE Hide
  BY <1>3 DEF Hide, TypeOK, table, stream, dragging
<1>4. CASE Show(f)
  <2>1. (IF sse THEN {} ELSE {f}) \in SUBSET Fetches
    OBVIOUS
  <2> QED
    BY <1>4, <2>1, StartFetchTypes DEF Show, Interval, TypeOK, table, stream, dragging
<1>5. CASE Poll(f) \/ Refresh(f)
  BY <1>5, StartFetchTypes DEF Poll, Refresh, TypeOK, table, stream, poll, dragging
<1> QED
  BY <1>1, <1>2, <1>3, <1>4, <1>5

LEMMA FetchTypes ==
    ASSUME TypeOK, NEW f \in Fetches, Read(f) \/ Fetched(f) \/ FetchFails(f)
    PROVE  TypeOK'
<1>1. CASE Read(f)
  <2>1. fetch[f] # NoFetch
    BY <1>1 DEF Read, NoFetch
  <2>2. [phase |-> "read", live |-> fetch[f].live, rows |-> row] \in Fetch
    BY <2>1, Shapes DEF Fetch, TypeOK
  <2> QED
    BY <1>1, <2>2 DEF Read, TypeOK, table, stream, poll, dragging
<1>2. CASE Fetched(f)
  BY <1>2, Shapes DEF Fetched, Finished, Adopted, TypeOK, table, stream, poll, dragging
<1>3. CASE FetchFails(f)
  BY <1>3, Shapes DEF FetchFails, Finished, TypeOK, table, stream, poll, dragging
<1> QED
  BY <1>1, <1>2, <1>3

LEMMA ReceiveShown ==
    ASSUME TypeOK, Receive
    PROVE  /\ Head(wire) \in Event /\ Tail(wire) \in Seq(Event)
           /\ 1 \in DOMAIN wire /\ Head(wire) = wire[1]
           /\ shown' \in [Tasks -> SUBSET Status]
<1>1. wire \in Seq(Event) /\ wire # <<>>
  BY DEF TypeOK, Receive
<1>2. Head(wire) \in Event /\ Tail(wire) \in Seq(Event) /\ 1 \in DOMAIN wire /\ Head(wire) = wire[1]
  BY <1>1, HeadTailProperties, EmptySeq
<1> DEFINE e == Head(wire)
<1>3. e.kind \in {"created", "status", "deleted"} /\ e.task \in Tasks
  BY <1>2 DEF Event
<1>4. e.kind # "deleted" => e.status \in Status
  BY <1>2 DEF Event
<1> QED
  BY <1>2, <1>3, <1>4 DEF TypeOK, Receive, Shown

LEMMA StreamTypes ==
    ASSUME TypeOK, MountPage \/ UnmountPage \/ Open \/ StreamFails \/ Reconnect \/ Receive
    PROVE  TypeOK'
<1>1. CASE MountPage
  BY <1>1, BoardAssumption DEF MountPage, TypeOK, table, poll, dragging
<1>2. CASE UnmountPage
  BY <1>2, NoEvents, DismountedTypes DEF UnmountPage, Disconnected, TypeOK, table
<1>3. CASE Open
  BY <1>3, BoardAssumption DEF Open, Interval, TypeOK, table, dragging
<1>4. CASE StreamFails
  <2>1. attempts' \in 0..MaxAttempts /\ timer' \in BOOLEAN
    <3>1. attempts \in 0..MaxAttempts /\ timer \in BOOLEAN /\ MaxAttempts \in Nat
      BY BoardAssumption DEF TypeOK
    <3>2. TryAgain
      BY <1>4 DEF StreamFails
    <3>3. CASE attempts < MaxAttempts
      <4>1. attempts' = attempts + 1 /\ timer' = TRUE
        BY <3>2, <3>3 DEF TryAgain
      <4> QED
        BY <3>1, <3>3, <4>1
    <3>4. CASE ~(attempts < MaxAttempts)
      BY <3>1, <3>2, <3>4 DEF TryAgain
    <3> QED
      BY <3>3, <3>4
  <2> QED
    BY <1>4, <2>1, NoEvents DEF StreamFails, Interval, TypeOK, table, dragging
<1>5. CASE Reconnect
  BY <1>5 DEF Reconnect, TypeOK, table, poll, dragging
<1>6. CASE Receive
  BY <1>6, ReceiveShown DEF Receive, TypeOK, table, poll, dragging
<1> QED
  BY <1>1, <1>2, <1>3, <1>4, <1>5, <1>6

LEMMA ShownTypes ==
    ASSUME TypeOK, NEW t \in Tasks, NEW s \in Status
    PROVE  Shown(t, s) \in [Tasks -> SUBSET Status]
BY DEF TypeOK, Shown

LEMMA DropTypes ==
    ASSUME TypeOK, NEW t \in Tasks, NEW s \in Status, NEW d \in Drops,
           \/ DragStart(t, s) \/ DropOn(d, s)
           \/ Approved(d) \/ PutServed(d) \/ DropDone(d) \/ DropFails(d)
    PROVE  TypeOK'
<1>1. CASE DragStart(t, s)
  BY <1>1 DEF DragStart, Drag, TypeOK, table, stream, poll
<1>2. CASE DropOn(d, s)
  <2>1. drag \in Drag
    BY <1>2, Shapes DEF DropOn
  <2>2. [phase |-> IF s = Done THEN "review" ELSE "put", task |-> drag.task,
         from |-> drag.status, to |-> s, live |-> TRUE] \in Drop
    BY <2>1 DEF Drag, Drop
  <2>3. Shown(drag.task, s) \in [Tasks -> SUBSET Status]
    BY <2>1, ShownTypes DEF Drag
  <2> QED
    BY <1>2, <2>2, <2>3, ChangeTypes DEF DropOn, TypeOK, table, stream, poll
<1>3. CASE Approved(d)
  <2>1. drop[d] \in Drop
    BY <1>3, Shapes DEF Approved, Phase
  <2>2. [drop[d] EXCEPT !.phase = "put"] \in Drop
    BY <2>1 DEF Drop
  <2>3. Shown(drop[d].task, drop[d].to) \in [Tasks -> SUBSET Status]
    BY <2>1, ShownTypes DEF Drop
  <2> QED
    BY <1>3, <2>2, <2>3 DEF Approved, TypeOK, table, stream, poll
<1>4. CASE PutServed(d)
  <2>1. drop[d] \in Drop
    BY <1>4, Shapes DEF PutServed, Phase
  <2>2. drop[d].task \in Tasks /\ drop[d].to \in Status /\ drop[d].to \in Rows
    BY <2>1 DEF Drop, Rows
  <2>3. [drop[d] EXCEPT !.phase = "ok"] \in Drop
    BY <2>1 DEF Drop
  <2>4. row' \in [Tasks -> Rows] /\ had' \in [Tasks -> SUBSET Status]
    BY <1>4, <2>2, SetTypes DEF PutServed, table, TypeOK
  <2>5. wire' \in Seq(Event)
    BY <1>4, <2>2, Shapes, BroadcastTypes DEF PutServed
  <2> QED
    BY <1>4, <2>3, <2>4, <2>5 DEF PutServed, TypeOK, poll
<1>5. CASE DropDone(d)
  BY <1>5 DEF DropDone, DropEnds, TypeOK, table, stream, poll
<1>6. CASE DropFails(d)
  <2>1. drop[d] \in Drop
    BY <1>6, Shapes DEF DropFails
  <2>2. Shown(drop[d].task, drop[d].from) \in [Tasks -> SUBSET Status]
    BY <2>1, ShownTypes DEF Drop
  <2> QED
    BY <1>6, <2>2 DEF DropFails, Reverted, DropEnds, TypeOK, table, stream, poll
<1> QED
  BY <1>1, <1>2, <1>3, <1>4, <1>5, <1>6

---------------------------------------------------------------------------
(* The stream and the polling *)

LEMMA LinkKept ==
    ASSUME Link, UNCHANGED <<src, timer, attempts, sse, page, panel, visible, polling>>
    PROVE  Link'
BY DEF Link, StreamIsOwned, NewsHasASource

LEMMA PollLink ==
    ASSUME TypeOK, Link, NEW F \in SUBSET Fetches, NEW f \in Fetches,
           OpenPanel(F) \/ ClosePanel \/ Hide \/ Show(f)
    PROVE  Link'
<1>1. UNCHANGED <<src, timer, attempts, sse, page>>
  BY DEF OpenPanel, ClosePanel, Hide, Show, stream
<1>2. panel' /\ visible' => sse \/ polling'
  BY DEF OpenPanel, ClosePanel, Dismounted, Hide, Show, Interval, TypeOK
<1> QED
  BY <1>1, <1>2 DEF Link, StreamIsOwned, NewsHasASource

LEMMA StreamLink ==
    ASSUME TypeOK, Link, MountPage \/ UnmountPage \/ Open \/ StreamFails \/ Reconnect
    PROVE  Link'
<1>1. CASE MountPage
  BY <1>1 DEF MountPage, poll, Link, StreamIsOwned, NewsHasASource
<1>2. CASE UnmountPage
  BY <1>2 DEF UnmountPage, Disconnected, Dismounted, Link, StreamIsOwned, NewsHasASource
<1>3. CASE Open
  BY <1>3 DEF Open, Link, StreamIsOwned, NewsHasASource
<1>4. CASE StreamFails
  <2>1. timer' \/ attempts' = MaxAttempts
    <3>1. attempts \in 0..MaxAttempts /\ MaxAttempts \in Nat
      BY BoardAssumption DEF TypeOK
    <3>2. TryAgain
      BY <1>4 DEF StreamFails
    <3> QED
      BY <3>1, <3>2 DEF TryAgain
  <2>2. timer' => page'
    BY <1>4 DEF StreamFails, Link, StreamIsOwned
  <2>3. panel' /\ visible' => polling'
    BY <1>4 DEF StreamFails, Interval
  <2> QED
    BY <1>4, <2>1, <2>2, <2>3 DEF StreamFails, Link, StreamIsOwned, NewsHasASource
<1>5. CASE Reconnect
  BY <1>5 DEF Reconnect, poll, Link, StreamIsOwned, NewsHasASource
<1> QED
  BY <1>1, <1>2, <1>3, <1>4, <1>5

---------------------------------------------------------------------------
(* What is known of a task remains true. *)

\* A status a task had is never forgotten, and a task that is gone stays gone.
Grows ==
    \A t \in Tasks : /\ had[t] \subseteq had'[t]
                     /\ Born(t) => Born(t)' /\ (Exists(t)' => Exists(t))

LEMMA GrowsWhenKept == ASSUME UNCHANGED <<row, had>> PROVE Grows
BY DEF Grows, Born, Exists

LEMMA SetGrows ==
    ASSUME TypeOK, NEW t \in Tasks, NEW s \in Status \cup {Gone}, Set(t, s),
           Exists(t) \/ (row[t] = Unborn /\ s \in Status)
    PROVE  Grows
<1>1. Unborn \notin Status \cup {Gone}
  BY BoardAssumption DEF Unborn, Gone
<1>2. \A x \in Tasks \ {t} : row'[x] = row[x] /\ had'[x] = had[x]
  BY DEF TypeOK, Set
<1>3. row'[t] = s /\ had[t] \subseteq had'[t]
  BY DEF TypeOK, Set
<1> QED
  BY <1>1, <1>2, <1>3 DEF Grows, Born, Exists

LEMMA Remains ==
    ASSUME Grows
    PROVE  \A t \in Tasks : \A s : Born(t) /\ WasSo(t, s) => Born(t)' /\ WasSo(t, s)'
BY DEF Grows, WasSo

LEMMA WireKept ==
    ASSUME TypeOK, WireWasTrue, Grows, wire' \in {wire, <<>>} \/ (wire # <<>> /\ wire' = Tail(wire))
    PROVE  WireWasTrue'
<1>1. wire \in Seq(Event)
  BY DEF TypeOK
<1>2. \A i \in DOMAIN wire : wire[i].task \in Tasks
  BY <1>1 DEF Event
<1>3. \A i \in DOMAIN wire' : \E j \in DOMAIN wire : wire'[i] = wire[j]
  <2>1. CASE wire' = wire \/ wire' = <<>>
    BY <2>1
  <2>2. CASE wire # <<>> /\ wire' = Tail(wire)
    <3>1. \A i \in DOMAIN wire' : i + 1 \in DOMAIN wire /\ wire'[i] = wire[i + 1]
      BY <1>1, <2>2
    <3> QED
      BY <3>1
  <2> QED
    BY <2>1, <2>2
<1> QED
  BY <1>2, <1>3 DEF WireWasTrue, EventWasTrue, Grows, WasSo

LEMMA WireLonger ==
    ASSUME TypeOK, WireWasTrue, Grows, NEW e \in Event, Broadcast(e), EventWasTrue(e)'
    PROVE  WireWasTrue'
<1>1. CASE wire' = wire
  BY <1>1, WireKept
<1>2. CASE wire' = Append(wire, e)
  <2>1. wire \in Seq(Event)
    BY DEF TypeOK
  <2>2. \A i \in DOMAIN wire : wire[i].task \in Tasks
    BY <2>1 DEF Event
  <2>3. \A i \in DOMAIN wire' : wire'[i] = e \/ \E j \in DOMAIN wire : wire'[i] = wire[j]
    BY <1>2, <2>1
  <2> QED
    BY <2>2, <2>3 DEF WireWasTrue, EventWasTrue, Grows, WasSo
<1> QED
  BY <1>1, <1>2 DEF Broadcast

LEMMA FetchKept ==
    ASSUME TypeOK, FetchWasTrue, Grows,
           \A f \in Fetches : fetch'[f].phase = "read" =>
               fetch[f].phase = "read" /\ fetch'[f].rows = fetch[f].rows
    PROVE  FetchWasTrue'
BY Remains DEF FetchWasTrue

LEMMA ShownKept ==
    ASSUME TypeOK, Truth, Grows, UNCHANGED <<shown, drop>>, crossed \subseteq crossed'
    PROVE  ShownIsBorn' /\ ShownWasTrue'
<1>1. ShownIsBorn'
  BY DEF Truth, ShownIsBorn, Grows
<1>2. \A t \in Tasks : Ahead(t)' = Ahead(t)
  BY DEF Ahead
<1>3. \A t \in Tasks : shown[t] # {} /\ Exists(t)' => Exists(t)
  BY DEF Truth, ShownIsBorn, Grows
<1> QED
  BY <1>1, <1>2, <1>3 DEF Truth, ShownWasTrue, Grows

LEMMA DragKept ==
    ASSUME TypeOK, DragWasTrue, Grows, UNCHANGED crossed, drag' \in {drag, None}
    PROVE  DragWasTrue'
<1>1. drag # None => drag.task \in Tasks
  BY Shapes DEF Drag
<1> QED
  BY <1>1 DEF DragWasTrue, Grows, WasSo

LEMMA DropKept ==
    ASSUME TypeOK, DropWasTrue, Grows, crossed \subseteq crossed',
           \A d \in Drops : drop'[d] # NoDrop =>
               /\ drop[d] # NoDrop
               /\ drop'[d].task = drop[d].task /\ drop'[d].from = drop[d].from
               /\ drop'[d].to = drop[d].to
               /\ drop'[d].phase = "ok" => drop[d].phase = "ok"
    PROVE  DropWasTrue'
<1>1. \A d \in Drops : drop[d] # NoDrop => drop[d].task \in Tasks
  BY Shapes DEF Drop
<1> QED
  BY <1>1 DEF DropWasTrue, Grows, WasSo

\* A step that touches none of the copies.
LEMMA CopiesKept ==
    ASSUME TypeOK, Truth, Grows, UNCHANGED <<shown, fetch, drag, drop, crossed>>
    PROVE  FetchWasTrue' /\ ShownIsBorn' /\ ShownWasTrue' /\ DragWasTrue' /\ DropWasTrue'
<1>1. FetchWasTrue' /\ DragWasTrue'
  BY FetchKept, DragKept DEF Truth
<1>2. DropWasTrue'
  BY DropKept DEF Truth
<1> QED
  BY <1>1, <1>2, ShownKept

LEMMA RowStays == ASSUME RowIsHad, UNCHANGED <<row, had>> PROVE RowIsHad'
BY DEF RowIsHad, WasSo, Exists

LEMMA SetIsHad ==
    ASSUME TypeOK, RowIsHad, NEW t \in Tasks, NEW s \in Status \cup {Gone}, Set(t, s)
    PROVE  RowIsHad' /\ WasSo(t, s)'
<1>1. \A x \in Tasks \ {t} : row'[x] = row[x] /\ had'[x] = had[x]
  BY DEF TypeOK, Set
<1>2. row'[t] = s /\ had'[t] = had[t] \cup ({s} \cap Status)
  BY DEF TypeOK, Set
<1> QED
  BY <1>1, <1>2 DEF RowIsHad, WasSo, Exists

---------------------------------------------------------------------------
(* Steps *)

LEMMA ServerTruth ==
    ASSUME TypeOK, Truth, NEW t \in Tasks, NEW s \in Status, NEW told \in BOOLEAN,
           Create(t, s, told) \/ Update(t, s, told) \/ Delete(t)
    PROVE  Truth'
<1>1. UNCHANGED <<shown, fetch, drag, drop, crossed>>
  BY DEF Create, Update, Delete, browser, dragging
<1>2. CASE Create(t, s, told) \/ Update(t, s, told)
  <2>1. Set(t, s) /\ (row[t] = Unborn \/ Exists(t))
    BY <1>2 DEF Create, Update
  <2>2. Grows /\ RowIsHad' /\ WasSo(t, s)'
    BY <2>1, SetGrows, SetIsHad DEF Truth
  <2>3. Born(t)'
    BY <2>1, BoardAssumption DEF Set, Born, TypeOK
  <2>4. WireWasTrue'
    <3>1. CASE UNCHANGED wire
      BY <2>2, <3>1, WireKept DEF Truth
    <3>2. CASE Broadcast([kind |-> "created", task |-> t, status |-> s])
      <4>1. [kind |-> "created", task |-> t, status |-> s] \in Event
        BY DEF Event
      <4>2. EventWasTrue([kind |-> "created", task |-> t, status |-> s])'
        BY <2>2, <2>3 DEF EventWasTrue
      <4> QED
        BY <2>2, <3>2, <4>1, <4>2, WireLonger DEF Truth
    <3>3. CASE Broadcast(StatusEvent(t, s))
      <4>1. EventWasTrue(StatusEvent(t, s))'
        BY <2>2, <2>3 DEF EventWasTrue, StatusEvent
      <4> QED
        BY <2>2, <3>3, <4>1, Shapes, WireLonger DEF Truth
    <3> QED
      BY <1>2, <3>1, <3>2, <3>3 DEF Create, Update
  <2> QED
    BY <1>1, <2>2, <2>4, CopiesKept DEF Truth
<1>3. CASE Delete(t)
  <2>1. Set(t, Gone) /\ Exists(t)
    BY <1>3 DEF Delete
  <2>2. Grows /\ RowIsHad'
    BY <2>1, SetGrows, SetIsHad DEF Truth
  <2>3. Born(t)'
    BY <2>1 DEF Set, Born, TypeOK, Unborn, Gone
  <2>4. [kind |-> "deleted", task |-> t] \in Event
    BY DEF Event
  <2>5. EventWasTrue([kind |-> "deleted", task |-> t])'
    BY <2>3 DEF EventWasTrue
  <2>6. WireWasTrue'
    BY <1>3, <2>2, <2>4, <2>5, WireLonger DEF Delete, Truth
  <2> QED
    BY <1>1, <2>2, <2>6, CopiesKept DEF Truth
<1> QED
  BY <1>2, <1>3

\* Steps that leave table and copies alone, but for a stream that is cut.
LEMMA QuietTruth ==
    ASSUME TypeOK, Truth,
           UNCHANGED <<row, had, shown, fetch, drag, drop, crossed>>, wire' \in {wire, <<>>}
    PROVE  Truth'
<1>1. Grows /\ RowIsHad'
  BY GrowsWhenKept, RowStays DEF Truth
<1>2. WireWasTrue'
  BY <1>1, WireKept DEF Truth
<1> QED
  BY <1>1, <1>2, CopiesKept DEF Truth

LEMMA StartTruth ==
    ASSUME TypeOK, Truth, NEW F \in SUBSET Fetches, StartFetch(F),
           UNCHANGED <<row, had, wire, shown, drag, drop, crossed>>
    PROVE  Truth'
<1>1. Grows /\ RowIsHad'
  BY GrowsWhenKept, RowStays DEF Truth
<1>2. \A f \in Fetches : fetch'[f].phase = "read" =>
        fetch[f].phase = "read" /\ fetch'[f].rows = fetch[f].rows
  BY DEF StartFetch, Asked
<1>3. FetchWasTrue' /\ WireWasTrue' /\ DragWasTrue'
  BY <1>1, <1>2, FetchKept, WireKept, DragKept DEF Truth
<1>4. DropWasTrue'
  BY <1>1, DropKept DEF Truth
<1> QED
  BY <1>1, <1>3, <1>4, ShownKept DEF Truth

LEMMA DismountedTruth ==
    ASSUME TypeOK, Truth, Dismounted, UNCHANGED <<row, had, shown, crossed>>, wire' \in {wire, <<>>}
    PROVE  Truth'
<1>1. Grows /\ RowIsHad'
  BY GrowsWhenKept, RowStays DEF Truth
<1>2. FetchWasTrue'
  BY <1>1, DismountedTypes, FetchKept DEF Truth
<1>3. DropWasTrue'
  BY <1>1, DismountedTypes, DropKept DEF Truth
<1>4. DragWasTrue' /\ WireWasTrue'
  BY <1>1, WireKept DEF DragWasTrue, Dismounted, Truth
<1>5. ShownIsBorn'
  BY DEF Truth, ShownIsBorn, Born
<1>6. \A t \in Tasks : Ahead(t) \subseteq Ahead(t)'
  BY DismountedTypes DEF Ahead
<1>7. ShownWasTrue'
  BY <1>6 DEF Truth, ShownWasTrue, Exists
<1> QED
  BY <1>1, <1>2, <1>3, <1>4, <1>5, <1>7 DEF Truth

LEMMA FetchTruth ==
    ASSUME TypeOK, Truth, NEW f \in Fetches, Read(f) \/ Fetched(f) \/ FetchFails(f)
    PROVE  Truth'
<1>1. UNCHANGED <<row, had, wire, drag, drop, crossed>>
  BY DEF Read, Fetched, FetchFails, table, stream, dragging
<1>2. Grows /\ RowIsHad' /\ WireWasTrue' /\ DragWasTrue'
  BY <1>1, GrowsWhenKept, RowStays, WireKept, DragKept DEF Truth
<1>3. DropWasTrue'
  BY <1>1, <1>2, DropKept DEF Truth
<1>4. CASE Read(f)
  <2>1. \A t \in Tasks : row[t] \in Status => Born(t) /\ WasSo(t, row[t])
    BY BoardAssumption DEF Truth, RowIsHad, Born
  <2>2. FetchWasTrue'
    <3>1. \A g \in Fetches \ {f} : fetch'[g] = fetch[g]
      BY <1>4 DEF Read, TypeOK
    <3>2. fetch'[f].rows = row
      BY <1>4 DEF Read, TypeOK
    <3> QED
      BY <1>2, <2>1, <3>1, <3>2, Remains DEF Truth, FetchWasTrue
  <2> QED
    BY <1>1, <1>2, <1>3, <1>4, <2>2, ShownKept DEF Truth, Read
<1>5. CASE Fetched(f) \/ FetchFails(f)
  <2>1. \A g \in Fetches : fetch'[g].phase = "read" =>
          fetch[g].phase = "read" /\ fetch'[g].rows = fetch[g].rows
    BY <1>5 DEF Fetched, FetchFails, Finished, NoFetch, TypeOK
  <2>2. FetchWasTrue'
    BY <1>2, <2>1, FetchKept DEF Truth
  <2>3. CASE FetchFails(f)
    BY <1>1, <1>2, <1>3, <2>2, <2>3, ShownKept DEF Truth, FetchFails
  <2>4. CASE Fetched(f)
    <3>1. fetch[f].phase = "read" /\ \A t \in Tasks : shown'[t] = {fetch[f].rows[t]} \cap Status
      BY <2>4 DEF Fetched, Adopted
    <3>2. \A t \in Tasks : \A s \in shown'[t] : Born(t) /\ WasSo(t, s)
      BY <3>1 DEF Truth, FetchWasTrue
    <3>3. ShownIsBorn' /\ ShownWasTrue'
      BY <1>1, <3>2 DEF ShownIsBorn, ShownWasTrue, Born, WasSo, Exists
    <3> QED
      BY <1>2, <1>3, <2>2, <3>3 DEF Truth
  <2> QED
    BY <1>5, <2>3, <2>4
<1> QED
  BY <1>4, <1>5

LEMMA ReceiveTruth == ASSUME TypeOK, Truth, Receive PROVE Truth'
<1> DEFINE e == wire[1]
<1>1. UNCHANGED <<row, had, fetch, drag, drop, crossed>> /\ wire # <<>> /\ wire' = Tail(wire)
  BY DEF Receive, table, dragging
<1>2. Grows /\ RowIsHad' /\ WireWasTrue' /\ DragWasTrue'
  BY <1>1, GrowsWhenKept, RowStays, WireKept, DragKept DEF Truth
<1>3. DropWasTrue' /\ FetchWasTrue'
  BY <1>1, <1>2, DropKept, FetchKept DEF Truth
<1>4. e \in Event /\ Head(wire) = e /\ EventWasTrue(e)
  BY ReceiveShown DEF Truth, WireWasTrue
<1>5. e.task \in Tasks /\ e.kind \in {"created", "status", "deleted"}
  BY <1>4 DEF Event
<1>6. \A t \in Tasks : \A s \in shown'[t] :
        s \in shown[t] \/ (t = e.task /\ e.kind # "deleted" /\ s = e.status)
  BY <1>4, <1>5 DEF Receive, Shown, TypeOK
<1>7. \A t \in Tasks : \A s \in shown'[t] : s \in shown[t] \/ (Born(t) /\ WasSo(t, s))
  BY <1>4, <1>6 DEF EventWasTrue
<1>8. \A t \in Tasks : Ahead(t)' = Ahead(t)
  BY <1>1 DEF Ahead
<1>9. ShownIsBorn' /\ ShownWasTrue'
  BY <1>1, <1>7, <1>8 DEF Truth, ShownIsBorn, ShownWasTrue, Born, WasSo, Exists
<1> QED
  BY <1>2, <1>3, <1>9 DEF Truth

LEMMA DragTruth ==
    ASSUME TypeOK, Truth, NEW t \in Tasks, NEW s \in Status, DragStart(t, s)
    PROVE  Truth'
<1>1. UNCHANGED <<row, had, wire, shown, fetch, drop>> /\ crossed \subseteq crossed'
  BY DEF DragStart, table, stream
<1>2. Grows /\ RowIsHad' /\ WireWasTrue'
  BY <1>1, GrowsWhenKept, RowStays, WireKept DEF Truth
<1>3. DropWasTrue'
  BY <1>1, <1>2, DropKept DEF Truth
<1>4. FetchWasTrue'
  BY <1>1, <1>2, FetchKept DEF Truth
<1>5. DragWasTrue'
  <2>1. drag' = [task |-> t, status |-> s] /\ s \in shown[t]
    BY DEF DragStart
  <2>2. Born(t)
    BY <2>1 DEF Truth, ShownIsBorn
  <2>3. ASSUME t \notin crossed'
        PROVE  WasSo(t, s)
    <3>1. t \notin crossed /\ ~InFlight(t)
      BY <2>3 DEF DragStart
    <3>2. Ahead(t) = {}
      BY <3>1 DEF Ahead, InFlight
    <3> QED
      BY <2>1, <3>1, <3>2 DEF Truth, ShownWasTrue, WasSo
  <2> QED
    BY <1>1, <2>1, <2>2, <2>3 DEF DragWasTrue, Born, WasSo, Exists
<1> QED
  BY <1>1, <1>2, <1>3, <1>4, <1>5, ShownKept DEF Truth

\* What a card may show after a change of one card.
LEMMA OneCard ==
    ASSUME TypeOK, Truth, NEW t \in Tasks, NEW s \in Status, shown' = Shown(t, s),
           UNCHANGED <<row, had, crossed>>,
           \A x \in Tasks \ {t} : Ahead(x) \subseteq Ahead(x)',
           t \notin crossed => WasSo(t, s) \/ s \in Ahead(t)'
    PROVE  ShownIsBorn' /\ ShownWasTrue'
<1>1. \A x \in Tasks \ {t} : shown'[x] = shown[x]
  BY DEF TypeOK, Shown
<1>2. shown'[t] \subseteq {s} /\ (shown'[t] # {} => shown[t] # {})
  BY DEF TypeOK, Shown
<1>3. ShownIsBorn'
  BY <1>1, <1>2 DEF Truth, ShownIsBorn, Born
<1> QED
  BY <1>1, <1>2, <1>3 DEF Truth, ShownWasTrue, WasSo, Exists

LEMMA DropOnTruth ==
    ASSUME TypeOK, Truth, NEW d \in Drops, NEW s \in Status, NEW t, t = drag.task, DropOn(d, s)
    PROVE  Truth'
<1>1. UNCHANGED <<row, had, wire, fetch, crossed>> /\ drag' \in {drag, None}
  BY DEF DropOn, table, stream
<1>2. Grows /\ RowIsHad' /\ WireWasTrue' /\ DragWasTrue'
  BY <1>1, GrowsWhenKept, RowStays, WireKept, DragKept DEF Truth
<1>3. FetchWasTrue'
  BY <1>1, <1>2, FetchKept DEF Truth
<1>4. CASE drag.status = s
  <2>1. UNCHANGED <<shown, drop>>
    BY <1>4 DEF DropOn
  <2>2. DropWasTrue'
    BY <1>1, <1>2, <2>1, DropKept DEF Truth
  <2> QED
    BY <1>1, <1>2, <1>3, <2>1, <2>2, ShownKept DEF Truth
<1>5. CASE drag.status # s
  <2> DEFINE phase == IF s = Done THEN "review" ELSE "put"
  <2>1. /\ drop[d] = NoDrop /\ drag # None
        /\ drop' = [drop EXCEPT ![d] = [phase |-> phase, task |-> t, from |-> drag.status,
                                        to |-> s, live |-> TRUE]]
        /\ shown' = IF s = Done THEN shown ELSE Shown(t, s)
    BY <1>5 DEF DropOn
  <2>2. t \in Tasks /\ Born(t) /\ (t \notin crossed => WasSo(t, drag.status))
    BY <2>1, Shapes DEF Drag, Truth, DragWasTrue
  <2>3. \A x \in Drops \ {d} : drop'[x] = drop[x]
    BY <2>1 DEF TypeOK
  <2>4. drop'[d] = [phase |-> phase, task |-> t, from |-> drag.status, to |-> s, live |-> TRUE]
    BY <2>1 DEF TypeOK
  <2>5. DropWasTrue'
    BY <1>1, <2>2, <2>3, <2>4 DEF Truth, DropWasTrue, Born, WasSo, Exists
  <2>6. \A x \in Tasks : Ahead(x) \subseteq Ahead(x)'
    BY <2>1, <2>3 DEF Ahead
  <2>7. CASE s = Done
    <3>1. shown' = shown
      BY <2>1, <2>7
    <3>2. ShownIsBorn' /\ ShownWasTrue'
      BY <1>1, <2>6, <3>1 DEF Truth, ShownIsBorn, ShownWasTrue, Born, Exists
    <3> QED
      BY <1>2, <1>3, <2>5, <3>2 DEF Truth
  <2>8. CASE s # Done
    <3>1. shown' = Shown(t, s)
      BY <2>1, <2>8
    <3>2. s \in Ahead(t)'
      <4>1. drop'[d] # NoDrop
        BY <2>4 DEF NoDrop
      <4> QED
        BY <2>4, <2>8, <4>1 DEF Ahead
    <3>3. ShownIsBorn' /\ ShownWasTrue'
      BY <1>1, <2>2, <2>6, <3>1, <3>2, OneCard
    <3> QED
      BY <1>2, <1>3, <2>5, <3>3 DEF Truth
  <2> QED
    BY <2>7, <2>8
<1> QED
  BY <1>4, <1>5

LEMMA ApprovedTruth ==
    ASSUME TypeOK, Truth, NEW d \in Drops, NEW t, t = drop[d].task, NEW s, s = drop[d].to,
           Approved(d)
    PROVE  Truth'
<1>1. UNCHANGED <<row, had, wire, fetch, drag, crossed>>
  BY DEF Approved, table, stream
<1>2. Grows /\ RowIsHad' /\ WireWasTrue' /\ DragWasTrue'
  BY <1>1, GrowsWhenKept, RowStays, WireKept, DragKept DEF Truth
<1>3. FetchWasTrue'
  BY <1>1, <1>2, FetchKept DEF Truth
<1>4. drop[d] \in Drop /\ drop[d] # NoDrop /\ drop[d].phase = "review"
  BY Shapes DEF Approved, Phase
<1>5. t \in Tasks /\ s \in Status
  BY <1>4 DEF Drop
<1>6. \A x \in Drops \ {d} : drop'[x] = drop[x]
  BY DEF Approved, TypeOK
<1>7. drop'[d] = [drop[d] EXCEPT !.phase = "put"]
  BY DEF Approved, TypeOK
<1>8. /\ drop'[d].phase = "put" /\ drop'[d].task = t /\ drop'[d].to = s
      /\ drop'[d].from = drop[d].from /\ drop'[d] # NoDrop
  BY <1>4, <1>7 DEF Drop, NoDrop
<1>9. DropWasTrue'
  BY <1>2, <1>1, <1>4, <1>6, <1>8, DropKept DEF Truth
<1>10. \A x \in Tasks : Ahead(x) \subseteq Ahead(x)'
  BY <1>4, <1>6, <1>8 DEF Ahead
<1>11. s \in Ahead(t)'
  BY <1>8 DEF Ahead
<1>12. ShownIsBorn' /\ ShownWasTrue'
  BY <1>1, <1>5, <1>10, <1>11, OneCard DEF Approved
<1> QED
  BY <1>2, <1>3, <1>9, <1>12 DEF Truth

LEMMA PutTruth ==
    ASSUME TypeOK, Truth, NEW d \in Drops, NEW t, t = drop[d].task, NEW s, s = drop[d].to,
           PutServed(d)
    PROVE  Truth'
<1>1. UNCHANGED <<shown, fetch, drag, crossed>>
  BY DEF PutServed
<1>2. drop[d] \in Drop /\ drop[d] # NoDrop /\ drop[d].phase = "put"
  BY Shapes DEF PutServed, Phase
<1>3. t \in Tasks /\ s \in Status
  BY <1>2 DEF Drop
<1>4. Grows /\ RowIsHad' /\ WasSo(t, s)' /\ Born(t)'
  <2>1. Born(t)
    BY <1>2 DEF Truth, DropWasTrue
  <2>2. CASE Exists(t)
    <3>1. Set(t, s)
      BY <2>2 DEF PutServed
    <3>2. Grows /\ RowIsHad' /\ WasSo(t, s)'
      BY <1>3, <2>2, <3>1, SetGrows, SetIsHad DEF Truth
    <3> QED
      BY <1>3, <2>1, <3>2 DEF Grows
  <2>3. CASE ~Exists(t)
    <3>1. UNCHANGED <<row, had>>
      BY <2>3 DEF PutServed, table
    <3>2. Grows /\ RowIsHad'
      BY <3>1, GrowsWhenKept, RowStays DEF Truth
    <3> QED
      BY <2>1, <2>3, <3>1, <3>2 DEF WasSo, Exists, Born
  <2> QED
    BY <2>2, <2>3
<1>5. WireWasTrue'
  <2>1. EventWasTrue(StatusEvent(t, s))'
    BY <1>4 DEF EventWasTrue, StatusEvent
  <2>2. StatusEvent(t, s) \in Event /\ Broadcast(StatusEvent(t, s))
    BY <1>3, Shapes DEF PutServed
  <2> QED
    BY <1>4, <2>1, <2>2, WireLonger DEF Truth
<1>6. FetchWasTrue' /\ DragWasTrue'
  BY <1>1, <1>4, FetchKept, DragKept DEF Truth
<1>7. \A x \in Drops \ {d} : drop'[x] = drop[x]
  BY DEF PutServed, TypeOK
<1>8. drop'[d] = [drop[d] EXCEPT !.phase = "ok"]
  BY DEF PutServed, TypeOK
<1>9. /\ drop'[d].phase = "ok" /\ drop'[d].task = t /\ drop'[d].to = s
      /\ drop'[d].from = drop[d].from /\ drop'[d] # NoDrop
  BY <1>2, <1>8 DEF Drop, NoDrop
<1>10. DropWasTrue'
  <2>1. \A x \in Drops : drop[x] # NoDrop => drop[x].task \in Tasks
    BY Shapes DEF Drop
  <2> QED
    BY <1>1, <1>2, <1>4, <1>7, <1>9, <2>1 DEF Truth, DropWasTrue, Grows, WasSo
<1>11. ShownIsBorn'
  BY <1>1, <1>4 DEF Truth, ShownIsBorn, Grows
<1>12. \A x \in Tasks : Ahead(x) \subseteq Ahead(x)'
  BY <1>2, <1>7, <1>9 DEF Ahead
<1>13. ShownWasTrue'
  <2>1. \A x \in Tasks : had[x] \subseteq had'[x] /\ (shown[x] # {} /\ Exists(x)' => Exists(x))
    BY <1>1, <1>4 DEF Truth, ShownIsBorn, Grows, Exists, Born
  <2> QED
    BY <1>1, <1>12, <2>1 DEF Truth, ShownWasTrue
<1> QED
  BY <1>4, <1>5, <1>6, <1>10, <1>11, <1>13 DEF Truth

LEMMA EndTruth ==
    ASSUME TypeOK, Truth, NEW d \in Drops, NEW t, t = drop[d].task, NEW s, s = drop[d].to,
           DropDone(d) \/ DropFails(d)
    PROVE  Truth'
<1>1. UNCHANGED <<row, had, wire, fetch, crossed>> /\ drag' \in {drag, None}
  BY DEF DropDone, DropFails, DropEnds, table, stream
<1>2. Grows /\ RowIsHad' /\ WireWasTrue' /\ DragWasTrue'
  BY <1>1, GrowsWhenKept, RowStays, WireKept, DragKept DEF Truth
<1>3. FetchWasTrue'
  BY <1>1, <1>2, FetchKept DEF Truth
<1>4. drop[d] \in Drop /\ drop[d] # NoDrop
  BY Shapes DEF DropDone, DropFails, Phase
<1>5. t \in Tasks /\ drop[d].from \in Status
  BY <1>4 DEF Drop
<1>6. drop'[d] = NoDrop /\ \A x \in Drops \ {d} : drop'[x] = drop[x]
  BY DEF DropDone, DropFails, DropEnds, TypeOK
<1>7. DropWasTrue'
  BY <1>1, <1>2, <1>6, DropKept DEF Truth
<1>8. \A x \in Tasks \ {t} : Ahead(x) \subseteq Ahead(x)'
  BY <1>6 DEF Ahead
<1>9. CASE DropFails(d)
  <2>1. t \notin crossed => WasSo(t, drop[d].from)
    BY <1>4 DEF Truth, DropWasTrue
  <2>2. shown' = Shown(t, drop[d].from)
    BY <1>9 DEF DropFails, Reverted
  <2>3. ShownIsBorn' /\ ShownWasTrue'
    BY <1>1, <1>5, <1>8, <2>1, <2>2, OneCard
  <2> QED
    BY <1>2, <1>3, <1>7, <2>3 DEF Truth
<1>10. CASE DropDone(d)
  <2>1. shown' = shown /\ drop[d].phase = "ok"
    BY <1>10 DEF DropDone, Phase
  <2>2. WasSo(t, s)
    BY <1>4, <2>1 DEF Truth, DropWasTrue
  <2>3. Ahead(t) \subseteq Ahead(t)' \cup {s}
    BY <1>6 DEF Ahead
  <2>4. ShownIsBorn' /\ ShownWasTrue'
    BY <1>1, <1>8, <2>1, <2>2, <2>3 DEF Truth, ShownIsBorn, ShownWasTrue, Born, WasSo, Exists
  <2> QED
    BY <1>2, <1>3, <1>7, <2>4 DEF Truth
<1> QED
  BY <1>9, <1>10

---------------------------------------------------------------------------
(* Theorems *)

LEMMA Initially == Init => IInv
<1> SUFFICES ASSUME Init PROVE IInv
  OBVIOUS
<1>1. \A t \in Tasks : had[t] = IF row[t] \in Status THEN {row[t]} ELSE {}
  BY DEF Init, Exists
<1>2. had \in [Tasks -> SUBSET Status]
  BY <1>1 DEF Init, Exists
<1>3. NoFetch.phase = "idle"
  BY DEF NoFetch
<1>4. TypeOK
  <2>1. 0 \in 0..MaxAttempts /\ 0 \in 0..MaxChanges
    BY BoardAssumption
  <2>2. row \in [Tasks -> Rows] /\ shown \in [Tasks -> SUBSET Status]
    BY DEF Init, Rows
  <2>3. /\ fetch \in [Fetches -> Fetch \cup {NoFetch}]
        /\ drop \in [Drops -> Drop \cup {NoDrop}]
    BY DEF Init
  <2> QED
    BY <1>2, <2>1, <2>2, <2>3, NoEvents DEF Init, TypeOK
<1>5. Link
  BY DEF Init, Link, StreamIsOwned, NewsHasASource
<1>6. RowIsHad
  BY <1>1 DEF RowIsHad, WasSo, Exists
<1>7. Truth
  BY <1>3, <1>6, EmptySeq
     DEF Init, Truth, WireWasTrue, FetchWasTrue, ShownIsBorn, DragWasTrue, DropWasTrue, ShownWasTrue
<1> QED
  BY <1>4, <1>5, <1>7 DEF IInv

LEMMA Inductive == IInv /\ [Next]_vars => IInv'
<1> SUFFICES ASSUME IInv, [Next]_vars PROVE IInv'
  OBVIOUS
<1>0. TypeOK /\ Link /\ Truth
  BY DEF IInv
<1>1. ASSUME NEW t \in Tasks, NEW s \in Status, NEW told \in BOOLEAN,
             Create(t, s, told) \/ Update(t, s, told) \/ Delete(t)
      PROVE  IInv'
  <2>1. UNCHANGED <<src, timer, attempts, sse, page, panel, visible, polling>>
    BY <1>1 DEF Create, Update, Delete, browser, poll
  <2> QED
    BY <1>0, <1>1, <2>1, ServerTypes, ServerTruth, LinkKept DEF IInv
<1>2. CASE Serve \/ Sever
  <2>1. UNCHANGED <<src, timer, attempts, sse, page, panel, visible, polling>>
    BY <1>2 DEF Serve, Sever, browser, poll
  <2>2. UNCHANGED <<row, had, shown, fetch, drag, drop, crossed>> /\ wire' \in {wire, <<>>}
    BY <1>2 DEF Serve, Sever, browser, table, dragging
  <2>3. TypeOK'
    BY <1>0, <1>2, NoEvents DEF Serve, Sever, TypeOK, table, browser, poll, dragging
  <2> QED
    BY <1>0, <2>1, <2>2, <2>3, QuietTruth, LinkKept DEF IInv
<1>3. ASSUME NEW F \in SUBSET Fetches, NEW f \in Fetches,
             OpenPanel(F) \/ Show(f) \/ Poll(f) \/ Refresh(f)
      PROVE  IInv'
  <2>1. TypeOK'
    BY <1>0, <1>3, PollTypes
  <2>2. Link'
    <3>1. CASE OpenPanel(F) \/ Show(f)
      BY <1>0, <3>1, PollLink
    <3>2. CASE Poll(f) \/ Refresh(f)
      BY <1>0, <3>2, LinkKept DEF Poll, Refresh, stream, poll
    <3> QED
      BY <1>3, <3>1, <3>2
  <2>3. UNCHANGED <<row, had, wire, shown, drag, drop, crossed>>
    BY <1>3 DEF OpenPanel, Show, Poll, Refresh, table, stream, dragging
  <2>4. \E G \in SUBSET Fetches : StartFetch(G)
    <3>1. {f} \in SUBSET Fetches /\ (IF sse THEN {} ELSE {f}) \in SUBSET Fetches
      OBVIOUS
    <3> QED
      BY <1>3, <3>1 DEF OpenPanel, Show, Poll, Refresh
  <2> QED
    BY <1>0, <2>1, <2>2, <2>3, <2>4, StartTruth DEF IInv
<1>4. CASE ClosePanel
  <2>1. Dismounted /\ UNCHANGED <<row, had, shown, crossed, wire>>
    BY <1>4 DEF ClosePanel, table, stream
  <2>2. TypeOK'
    BY <1>0, <1>4, DismountedTypes DEF ClosePanel, TypeOK, table, stream
  <2>3. Link'
    BY <1>0, <1>4 DEF ClosePanel, Dismounted, stream, Link, StreamIsOwned, NewsHasASource
  <2> QED
    BY <1>0, <2>1, <2>2, <2>3, DismountedTruth DEF IInv
<1>5. CASE Hide
  <2>1. UNCHANGED <<row, had, shown, fetch, drag, drop, crossed, wire>>
    BY <1>5 DEF Hide, table, stream, dragging
  <2>2. TypeOK'
    BY <1>0, <1>5 DEF Hide, TypeOK, table, stream, dragging
  <2>3. Link'
    BY <1>0, <1>5 DEF Hide, stream, Link, StreamIsOwned, NewsHasASource
  <2> QED
    BY <1>0, <2>1, <2>2, <2>3, QuietTruth DEF IInv
<1>6. ASSUME NEW f \in Fetches, Read(f) \/ Fetched(f) \/ FetchFails(f)
      PROVE  IInv'
  <2>1. UNCHANGED <<src, timer, attempts, sse, page, panel, visible, polling>>
    BY <1>6 DEF Read, Fetched, FetchFails, stream, poll
  <2> QED
    BY <1>0, <1>6, <2>1, FetchTypes, FetchTruth, LinkKept DEF IInv
<1>7. CASE MountPage \/ Open \/ StreamFails \/ Reconnect
  <2>1. UNCHANGED <<row, had, shown, fetch, drag, drop, crossed>> /\ wire' \in {wire, <<>>}
    BY <1>7 DEF MountPage, Open, StreamFails, Reconnect, table, dragging
  <2> QED
    BY <1>0, <1>7, <2>1, StreamTypes, StreamLink, QuietTruth DEF IInv
<1>8. CASE UnmountPage
  <2>1. Dismounted /\ UNCHANGED <<row, had, shown, crossed>> /\ wire' = <<>>
    BY <1>8 DEF UnmountPage, table
  <2> QED
    BY <1>0, <1>8, <2>1, StreamTypes, StreamLink, DismountedTruth DEF IInv
<1>9. CASE Receive
  <2>1. UNCHANGED <<src, timer, attempts, sse, page, panel, visible, polling>>
    BY <1>9 DEF Receive, poll
  <2> QED
    BY <1>0, <1>9, <2>1, StreamTypes, ReceiveTruth, LinkKept DEF IInv
<1>10. ASSUME NEW t \in Tasks, NEW s \in Status, DragStart(t, s)
       PROVE  IInv'
  <2>1. UNCHANGED <<src, timer, attempts, sse, page, panel, visible, polling>>
    BY <1>10 DEF DragStart, stream, poll
  <2>2. TypeOK'
    BY <1>0, <1>10 DEF DragStart, Drag, TypeOK, table, stream, poll
  <2> QED
    BY <1>0, <1>10, <2>1, <2>2, DragTruth, LinkKept DEF IInv
<1>11. ASSUME NEW d \in Drops, NEW s \in Status,
              DropOn(d, s) \/ Approved(d) \/ PutServed(d) \/ DropDone(d) \/ DropFails(d)
       PROVE  IInv'
  <2>1. UNCHANGED <<src, timer, attempts, sse, page, panel, visible, polling>>
    BY <1>11 DEF DropOn, Approved, PutServed, DropDone, DropFails, DropEnds, stream, poll
  <2>2. Tasks # {} => TypeOK'
    BY <1>0, <1>11, DropTypes
  <2>3. Tasks # {}
    <3>1. drop[d] # NoDrop \/ drag # None
      BY <1>11 DEF DropOn, Approved, PutServed, DropDone, DropFails, Phase
    <3> QED
      BY <1>0, <3>1, Shapes DEF Drop, Drag
  <2>4. Truth'
    BY <1>0, <1>11, DropOnTruth, ApprovedTruth, PutTruth, EndTruth
  <2> QED
    BY <1>0, <2>1, <2>2, <2>3, <2>4, LinkKept DEF IInv
<1>12. CASE UNCHANGED vars
  <2>1. UNCHANGED <<row, had, shown, fetch, drag, drop, crossed, wire>>
    BY <1>12 DEF vars, table, stream, dragging
  <2>2. TypeOK'
    BY <1>0, <1>12 DEF vars, TypeOK, table, stream, poll, dragging
  <2>3. Link'
    BY <1>0, <1>12, LinkKept DEF vars, stream, poll
  <2> QED
    BY <1>0, <2>1, <2>2, <2>3, QuietTruth DEF IInv
<1>13. Done \in Status
  BY BoardAssumption
<1>14. CASE Next
  <2>1. CASE \E t \in Tasks :
               \/ \E s \in Status :
                    \/ \E told \in BOOLEAN : Create(t, s, told) \/ Update(t, s, told)
                    \/ DragStart(t, s)
               \/ Delete(t)
    BY <2>1, <1>1, <1>10, <1>13
  <2>2. CASE \E F \in SUBSET Fetches : OpenPanel(F)
    <3>1. PICK F \in SUBSET Fetches : OpenPanel(F)
      BY <2>2
    <3>2. PICK f \in F : TRUE
      <4>1. F # {}
        BY <3>1, FS_EmptySet DEF OpenPanel
      <4> QED
        BY <4>1
    <3> QED
      BY <1>3, <3>1, <3>2
  <2>3. CASE \E f \in Fetches :
               Show(f) \/ Poll(f) \/ Refresh(f) \/ Read(f) \/ Fetched(f) \/ FetchFails(f)
    BY <2>3, <1>3, <1>6
  <2>4. CASE \E d \in Drops :
               \/ \E s \in Status : DropOn(d, s)
               \/ Approved(d) \/ PutServed(d) \/ DropDone(d) \/ DropFails(d)
    BY <2>4, <1>11, <1>13
  <2> QED
    BY <1>14, <2>1, <2>2, <2>3, <2>4, <1>2, <1>4, <1>5, <1>7, <1>8, <1>9 DEF Next
<1> QED
  BY <1>12, <1>14

\* The inductive invariant: what the copies of the tasks table in the page (the
\* store, the events, the answers and the drops on their way) say of a task is
\* what it was at some time, and the stream, its timer and the interval are in
\* step.
THEOREM BoardInvariant == Spec => []IInv
BY Initially, Inductive, PTL DEF Spec

\* The variables of LiveBoard keep their types.
THEOREM BoardTypeCorrect == Spec => []TypeOK
<1>1. IInv => TypeOK
  BY DEF IInv
<1> QED
  BY <1>1, BoardInvariant, PTL

\* A card never shows a status its task did not have, but for a drop that is not
\* answered yet (task-board-panel.tsx, handleDrop; store/index.ts).
THEOREM ShownIsAlwaysTrue == Spec => []ShownWasTrue
<1>1. IInv => ShownWasTrue
  BY DEF IInv, Truth
<1> QED
  BY <1>1, BoardInvariant, PTL

\* A board in view has the stream or polls; a page without a stream tries again
\* unless the attempts are used up (use-smart-poll.ts, use-server-events.ts).
THEOREM NewsAlwaysHasASource == Spec => []NewsHasASource
<1>1. IInv => NewsHasASource
  BY DEF IInv, Link
<1> QED
  BY <1>1, BoardInvariant, PTL
=============================================================================
