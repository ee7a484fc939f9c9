----------------------- MODULE NoticeDeliveryProofs -----------------------
(***************************************************************************)
(* The safety invariants of NoticeDelivery for any number of agents, keys, *)
(* callers, notices and connections, and any size of a batch.              *)
(***************************************************************************)
EXTENDS NoticeDelivery, FiniteSetTheorems, SequenceTheorems, TLAPS

\* A connection goes with its agent.
HasAgent == \A c \in DOMAIN conn : conn[c].status # "gone" => Exists(conn[c].agent)

KeyIsHeld == \A a \in Agents : Exists(a) /\ agent[a].key # None => agent[a].key \in held[a]

\* What the invariant says of agents and connections.
Presence ==
    /\ OneConnectionPerAgent
    /\ ConnectedIsUp
    /\ HasAgent
    /\ KeyIsHeld

UnbornIsUnheard == \A n \in Ids : n \notin DOMAIN notice => heard[n] = {}

\* An entry of a batch is of a notice to an agent, with a session it had.
BatchIsOwned ==
    \A b \in Callers : \A i \in DOMAIN batch[b] :
        LET e == batch[b][i] IN
        e.id \in DOMAIN notice /\ notice[e.id].to \in Agents /\ e.key \in held[notice[e.id].to]

\* A notice that was received and may be sent again is a doubtful one.
PendingHeardIsDoubtful ==
    \A n \in DOMAIN notice : Pending(n) /\ heard[n] # {} => n \in doubtful

BatchedHeardIsDoubtful ==
    \A b \in Callers : \A i \in DOMAIN batch[b] :
        heard[batch[b][i].id] # {} => batch[b][i].id \in doubtful

\* A notice that is in two batches is doubtful; it is not twice in one.
BatchedTwiceIsDoubtful ==
    \A b, c \in Callers : \A i \in DOMAIN batch[b], j \in DOMAIN batch[c] :
        batch[b][i].id = batch[c][j].id => (b = c /\ i = j) \/ batch[b][i].id \in doubtful

\* What the invariant says of notices and batches.
Delivery ==
    /\ DeliveredReachedItsAgent
    /\ HeardAgainIsDoubtful
    /\ UnbornIsUnheard
    /\ BatchIsOwned
    /\ PendingHeardIsDoubtful
    /\ BatchedHeardIsDoubtful
    /\ BatchedTwiceIsDoubtful

\* The inductive invariant.
IInv == TypeOK /\ Presence /\ Delivery

---------------------------------------------------------------------------
(* Sets and sequences *)

\* A change of rows leaves a table a table.
LEMMA TableChanged ==
    ASSUME NEW S, NEW s \in Seq(S), NEW t, DOMAIN t = DOMAIN s, t = [i \in DOMAIN s |-> t[i]],
           \A i \in DOMAIN s : t[i] \in S
    PROVE  t \in Seq(S) /\ Len(t) = Len(s)
<1>1. Len(s) \in Nat /\ DOMAIN s = 1..Len(s)
  BY LenProperties
<1>2. t \in [1..Len(s) -> S]
  BY <1>1
<1> QED
  BY <1>1, <1>2

\* The domains of the tables.
LEMMA Domains ==
    ASSUME TypeOK
    PROVE  /\ DOMAIN notice = 1..Len(notice) /\ Len(notice) \in Nat /\ DOMAIN notice \subseteq Ids
           /\ DOMAIN conn = 1..Len(conn) /\ Len(conn) \in Nat
           /\ \A n \in DOMAIN notice : notice[n] \in Notice
           /\ \A c \in DOMAIN conn : conn[c] \in Conn
           /\ \A b \in Callers :
                /\ DOMAIN batch[b] = 1..Len(batch[b]) /\ Len(batch[b]) \in Nat
                /\ \A i \in DOMAIN batch[b] : batch[b][i] \in Entry
<1>1. \A S : \A s \in Seq(S) :
        Len(s) \in Nat /\ DOMAIN s = 1..Len(s) /\ \A i \in DOMAIN s : s[i] \in S
  BY LenProperties, ElementOfSeq
<1>2. notice \in Seq(Notice) /\ conn \in Seq(Conn) /\ \A b \in Callers : batch[b] \in Seq(Entry)
  BY DEF TypeOK
<1>3. Len(notice) <= MaxNotices /\ MaxNotices \in Nat
  BY NoticeAssumption DEF TypeOK
<1> QED
  BY <1>1, <1>2, <1>3 DEF Ids

LEMMA RowShape ==
    ASSUME TypeOK, NEW a \in Agents, Exists(a)
    PROVE  agent[a] \in Row
BY DEF TypeOK, Exists

LEMMA InitTypes == Init => TypeOK
<1> SUFFICES ASSUME Init PROVE TypeOK
  OBVIOUS
<1>1. agent \in [Agents -> Row \cup {NoRow}]
  <2>1. \A k \in Keys : Offline(k) \in Row
    BY DEF Offline, Row, Status
  <2> QED
    BY <2>1 DEF Init
<1>2. conn \in Seq(Conn) /\ Len(conn) <= MaxConns
  <2>1. CASE conn = <<>>
    BY <2>1, NoticeAssumption
  <2>2. ASSUME NEW a \in Agents, conn = <<[agent |-> a, status |-> "connected"]>>
        PROVE  conn \in Seq(Conn) /\ Len(conn) <= MaxConns
    <3>1. [agent |-> a, status |-> "connected"] \in Conn
      BY DEF Conn
    <3> QED
      BY <2>2, <3>1, NoticeAssumption
  <2> QED
    BY <2>1, <2>2 DEF Init
<1>3. notice \in Seq(Notice) /\ Len(notice) <= MaxNotices
  BY NoticeAssumption DEF Init
<1>4. batch \in [Callers -> Seq(Entry)] /\ \A b \in Callers : Len(batch[b]) <= Limit
  BY NoticeAssumption DEF Init
<1>5. held \in [Agents -> SUBSET Keys]
  BY DEF Init, Exists, Offline, NoRow
<1>6. heard \in [Ids -> SUBSET Keys] /\ asks \subseteq {"message", "wake"} \X Agents
        /\ again \subseteq Ids /\ doubtful \subseteq Ids /\ requests \in 0..MaxRequests
  BY NoticeAssumption DEF Init
<1> QED
  BY <1>1, <1>2, <1>3, <1>4, <1>5, <1>6 DEF TypeOK

\* Actions that change agents and their sessions only.
LEMMA AgentTypes ==
    ASSUME TypeOK, NEW a \in Agents, NEW k \in Keys \cup {None}, NEW status \in Status,
           \/ CreateAgent(a, k, status) \/ SetKey(a, k) \/ SetStatus(a, status)
           \/ Heartbeat(a) \/ GrowOld(a)
    PROVE  TypeOK'
<1>1. agent' \in [Agents -> Row \cup {NoRow}]
  <2>1. CASE CreateAgent(a, k, status)
    BY <2>1 DEF TypeOK, CreateAgent, Row
  <2>2. CASE ~CreateAgent(a, k, status)
    <3>1. agent[a] \in Row
      BY <2>2, RowShape DEF SetKey, SetStatus, Heartbeat, GrowOld
    <3>2. [agent[a] EXCEPT !.key = k] \in Row /\ [agent[a] EXCEPT !.seen = FALSE] \in Row
            /\ [[agent[a] EXCEPT !.status = status] EXCEPT !.seen = TRUE] \in Row
            /\ [[agent[a] EXCEPT !.status = "up"] EXCEPT !.seen = TRUE] \in Row
      BY <3>1 DEF Row, Status
    <3> QED
      BY <2>2, <3>2 DEF TypeOK, SetKey, SetStatus, Heartbeat, GrowOld, Seen
  <2> QED
    BY <2>1, <2>2
<1>2. held' \in [Agents -> SUBSET Keys]
  BY DEF TypeOK, CreateAgent, SetKey, SetStatus, Heartbeat, GrowOld, history
<1>3. requests' \in 0..MaxRequests
  BY NoticeAssumption DEF TypeOK, CreateAgent, SetKey, SetStatus, Heartbeat, GrowOld, Request
<1> QED
  BY <1>1, <1>2, <1>3 DEF TypeOK, CreateAgent, SetKey, SetStatus, Heartbeat, GrowOld, history

LEMMA ConfigTypes == ASSUME TypeOK, NEW a \in Agents, SyncFromConfig(a) PROVE TypeOK'
<1>1. requests' \in 0..MaxRequests
  BY NoticeAssumption DEF TypeOK, SyncFromConfig, Request
<1>2. Offline(None) \in Row
  BY DEF Offline, Row, Status
<1>3. agent' \in [Agents -> Row \cup {NoRow}]
  BY <1>2 DEF TypeOK, SyncFromConfig
<1>4. UNCHANGED <<conn, notice, batch, asks, held, heard, again, doubtful>>
  BY DEF SyncFromConfig, history
<1> QED
  BY <1>1, <1>3, <1>4 DEF TypeOK

LEMMA ConductorTypes ==
    ASSUME TypeOK, NEW a \in Agents, NEW k \in Keys, NEW alive \in BOOLEAN,
           SyncFromConductor(a, k, alive)
    PROVE  TypeOK'
<1> DEFINE status == IF alive THEN "up" ELSE "dismissed"
           row == [key |-> k, status |-> status, seen |-> TRUE]
<1>1. requests' \in 0..MaxRequests
  BY NoticeAssumption DEF TypeOK, SyncFromConductor, Request
<1>2. status \in Status
  BY DEF Status
<1>3. agent' \in [Agents -> Row \cup {NoRow}] /\ held' \in [Agents -> SUBSET Keys]
  <2>1. CASE Exists(a)
    <3>1. agent' = Seen(a, status) /\ held' = held
      BY <2>1 DEF SyncFromConductor
    <3> HIDE DEF status
    <3>2. [[agent[a] EXCEPT !.status = status] EXCEPT !.seen = TRUE] \in Row
      BY <1>2, <2>1, RowShape DEF Row
    <3> QED
      BY <3>1, <3>2 DEF TypeOK, Seen
  <2>2. CASE ~Exists(a)
    <3>1. agent' = [agent EXCEPT ![a] = row] /\ held' = [held EXCEPT ![a] = @ \cup {k}]
      BY <2>2 DEF SyncFromConductor
    <3> HIDE DEF status
    <3>2. row \in Row
      BY <1>2 DEF Row
    <3> HIDE DEF row
    <3> QED
      BY <3>1, <3>2 DEF TypeOK
  <2> QED
    BY <2>1, <2>2
<1>4. UNCHANGED <<conn, notice, batch, asks, heard, again, doubtful>>
  BY DEF SyncFromConductor
<1> QED
  BY <1>1, <1>3, <1>4 DEF TypeOK

LEMMA SessionTypes ==
    ASSUME TypeOK, NEW a \in Agents, NEW recent \in BOOLEAN, NEW seen \in BOOLEAN,
           SyncFromSession(a, recent, seen)
    PROVE  TypeOK'
<1>1. requests' \in 0..MaxRequests
  BY NoticeAssumption DEF TypeOK, SyncFromSession, Request
<1>2. \A status \in Status :
        [[agent[a] EXCEPT !.status = status] EXCEPT !.seen = seen] \in Row
  BY RowShape DEF Row, SyncFromSession
<1>3. "up" \in Status /\ "dismissed" \in Status
  BY DEF Status
<1>4. agent' \in [Agents -> Row \cup {NoRow}]
  BY <1>2, <1>3 DEF TypeOK, SyncFromSession
<1>5. UNCHANGED <<conn, notice, batch, asks, held, heard, again, doubtful>>
  BY DEF SyncFromSession, history
<1> QED
  BY <1>1, <1>4, <1>5 DEF TypeOK

\* Actions that change connections.
LEMMA ReplacedTypes ==
    ASSUME TypeOK, NEW a \in Agents
    PROVE  Replaced(a) \in Seq(Conn) /\ Len(Replaced(a)) = Len(conn)
<1>1. \A c \in DOMAIN conn : Replaced(a)[c] \in Conn
  BY Domains DEF Replaced, Conn
<1>2. DOMAIN Replaced(a) = DOMAIN conn /\ Replaced(a) = [c \in DOMAIN conn |-> Replaced(a)[c]]
  BY DEF Replaced
<1>3. conn \in Seq(Conn)
  BY DEF TypeOK
<1> QED
  BY <1>1, <1>2, <1>3, TableChanged

LEMMA ConnectTypes == ASSUME TypeOK, NEW a \in Agents, ConnectCli(a) PROVE TypeOK'
<1>1. agent' \in [Agents -> Row \cup {NoRow}]
  <2>1. Exists(a) => [agent[a] EXCEPT !.status = "up"] \in Row
    BY RowShape DEF Row, Status
  <2>2. [key |-> None, status |-> "up", seen |-> FALSE] \in Row
    BY DEF Row, Status
  <2> QED
    BY <2>1, <2>2 DEF TypeOK, ConnectCli
<1>2. conn' \in Seq(Conn) /\ Len(conn') <= MaxConns
  <2>1. [agent |-> a, status |-> "connected"] \in Conn
    BY DEF Conn
  <2> QED
    BY <2>1, ReplacedTypes, AppendProperties, NoticeAssumption, Domains DEF ConnectCli
<1>3. requests' \in 0..MaxRequests
  BY NoticeAssumption DEF TypeOK, ConnectCli, Request
<1> QED
  BY <1>1, <1>2, <1>3 DEF TypeOK, ConnectCli, history

LEMMA DisconnectTypes ==
    ASSUME TypeOK, HasAgent, NEW c \in DOMAIN conn, DisconnectCli(c) PROVE TypeOK'
<1>1. conn[c] \in Conn
  BY Domains
<1>2. conn' \in Seq(Conn) /\ Len(conn') = Len(conn)
  <2>1. [conn[c] EXCEPT !.status = "disconnected"] \in Conn
    BY <1>1 DEF Conn
  <2> QED
    BY <2>1, Domains, ExceptSeq DEF DisconnectCli, TypeOK
<1>3. agent' \in [Agents -> Row \cup {NoRow}]
  <2>1. conn[c].agent \in Agents /\ Exists(conn[c].agent)
    BY <1>1 DEF Conn, HasAgent, DisconnectCli
  <2>2. [agent[conn[c].agent] EXCEPT !.status = "offline"] \in Row
    BY <2>1, RowShape DEF Row, Status
  <2> QED
    BY <2>1, <2>2 DEF TypeOK, DisconnectCli
<1>4. requests' \in 0..MaxRequests
  BY NoticeAssumption DEF TypeOK, DisconnectCli, Request
<1> QED
  BY <1>2, <1>3, <1>4 DEF TypeOK, DisconnectCli, history

LEMMA DeleteAgentTypes == ASSUME TypeOK, NEW a \in Agents, DeleteAgent(a) PROVE TypeOK'
<1>1. agent' \in [Agents -> Row \cup {NoRow}]
  BY DEF TypeOK, DeleteAgent
<1>2. conn' \in Seq(Conn) /\ Len(conn') = Len(conn)
  <2>1. \A c \in DOMAIN conn : conn'[c] \in Conn
    BY Domains DEF DeleteAgent, Conn
  <2>2. DOMAIN conn' = DOMAIN conn /\ conn' = [c \in DOMAIN conn |-> conn'[c]]
    BY DEF DeleteAgent
  <2>3. conn \in Seq(Conn)
    BY DEF TypeOK
  <2> QED
    BY <2>1, <2>2, <2>3, TableChanged
<1>3. requests' \in 0..MaxRequests
  BY NoticeAssumption DEF TypeOK, DeleteAgent, Request
<1> QED
  BY <1>1, <1>2, <1>3 DEF TypeOK, DeleteAgent, history

\* Actions that add notices.
LEMMA NewNotices ==
    ASSUME TypeOK, NEW r \in Agents \cup {System}, notice' = Append(notice, To(r)),
           Len(notice) < MaxNotices
    PROVE  notice' \in Seq(Notice) /\ Len(notice') <= MaxNotices
<1>1. To(r) \in Notice
  BY DEF To, Notice
<1> QED
  BY <1>1, AppendProperties, Domains, NoticeAssumption DEF TypeOK

LEMMA NotifyTypes == ASSUME TypeOK, NEW r \in Agents \cup {System}, Notify(r) PROVE TypeOK'
<1>1. notice' \in Seq(Notice) /\ Len(notice') <= MaxNotices
  BY NewNotices DEF Notify
<1>2. requests' \in 0..MaxRequests
  BY NoticeAssumption DEF TypeOK, Notify, Request
<1> QED
  BY <1>1, <1>2 DEF TypeOK, Notify, history

LEMMA MessageTypes == ASSUME TypeOK, NEW a \in Agents, MessageSent(a) PROVE TypeOK'
<1>1. notice' \in Seq(Notice) /\ Len(notice') <= MaxNotices
  BY NewNotices DEF MessageSent
<1> QED
  BY <1>1 DEF TypeOK, MessageSent, history

LEMMA AskTypes ==
    ASSUME TypeOK, NEW a \in Agents,
           \/ \E kind \in {"message", "wake"} : Ask(kind, a)
           \/ WakeSent(a)
           \/ AskFails
    PROVE  TypeOK'
<1>1. asks' \subseteq {"message", "wake"} \X Agents
  BY DEF TypeOK, Ask, WakeSent, AskFails
<1>2. agent' \in [Agents -> Row \cup {NoRow}]
  <2>1. Exists(a) => [[agent[a] EXCEPT !.status = "up"] EXCEPT !.seen = TRUE] \in Row
    BY RowShape DEF Row, Status
  <2> QED
    BY <2>1 DEF TypeOK, Ask, WakeSent, AskFails, Seen, tables
<1>3. requests' \in 0..MaxRequests
  BY NoticeAssumption DEF TypeOK, Ask, WakeSent, AskFails, Request
<1> QED
  BY <1>1, <1>2, <1>3 DEF TypeOK, Ask, WakeSent, AskFails, tables, history

\* The heartbeat check.
LEMMA HeartbeatCheckTypes ==
    ASSUME TypeOK, NEW S \in SUBSET Stale, HeartbeatCheck(S)
    PROVE  TypeOK'
<1> DEFINE k == Cardinality(S)
           new == [i \in 1..k |-> To(System)]
<1>1. agent' \in [Agents -> Row \cup {NoRow}]
  <2>1. \A a \in S : [agent[a] EXCEPT !.status = "offline"] \in Row
    BY RowShape DEF Stale, Row, Status
  <2> QED
    BY <2>1 DEF TypeOK, HeartbeatCheck
<1>2. k \in Nat
  BY NoticeAssumption, FS_Subset, FS_CardinalityType DEF Stale
<1>3. notice' \in Seq(Notice) /\ Len(notice') <= MaxNotices
  <2>1. To(System) \in Notice
    BY DEF To, Notice
  <2>2. new \in Seq(Notice) /\ Len(new) = k
    BY <1>2, <2>1
  <2>3. notice' = notice \o new /\ Len(notice) + k <= MaxNotices
    BY DEF HeartbeatCheck
  <2> HIDE DEF new, k
  <2> QED
    BY <2>2, <2>3, ConcatProperties DEF TypeOK
<1> QED
  BY <1>1, <1>3 DEF TypeOK, HeartbeatCheck, history

\* Actions that change the state of notices.
LEMMA GoneTypes == 
    ASSUME TypeOK, NEW S
    PROVE  Gone(S) \in Seq(Notice) /\ Len(Gone(S)) = Len(notice)
<1>1. \A n \in DOMAIN notice : Gone(S)[n] \in Notice
  BY Domains DEF Gone, Notice
<1>2. DOMAIN Gone(S) = DOMAIN notice /\ Gone(S) = [n \in DOMAIN notice |-> Gone(S)[n]]
  BY DEF Gone
<1>3. notice \in Seq(Notice)
  BY DEF TypeOK
<1> QED
  BY <1>1, <1>2, <1>3, TableChanged

LEMMA GoneActionTypes ==
    ASSUME TypeOK, NEW n \in DOMAIN notice, DeleteNotice(n) \/ Cleanup(n)
    PROVE  TypeOK'
<1>1. requests' \in 0..MaxRequests
  BY NoticeAssumption DEF TypeOK, DeleteNotice, Cleanup, Request
<1> QED
  BY <1>1, GoneTypes DEF TypeOK, DeleteNotice, Cleanup, history

LEMMA MarkDeliveredTypes ==
    ASSUME TypeOK, NEW r \in Agents \cup {System}, MarkDelivered(r)
    PROVE  TypeOK'
<1>1. notice' \in Seq(Notice) /\ Len(notice') = Len(notice)
  <2>1. \A n \in DOMAIN notice : notice'[n] \in Notice
    BY Domains DEF MarkDelivered, Notice
  <2>2. DOMAIN notice' = DOMAIN notice /\ notice' = [n \in DOMAIN notice |-> notice'[n]]
    BY DEF MarkDelivered
  <2>3. notice \in Seq(Notice)
    BY DEF TypeOK
  <2> QED
    BY <2>1, <2>2, <2>3, TableChanged
<1>2. requests' \in 0..MaxRequests
  BY NoticeAssumption DEF TypeOK, MarkDelivered, Request
<1> QED
  BY <1>1, <1>2 DEF TypeOK, MarkDelivered, history

\* A batch has entries, the first of which are removed as they are sent.
LEMMA QueueFacts ==
    ASSUME TypeOK, NEW r \in Agents \cup {None}, NEW S \in Selected(r),
           NEW T, T = {n \in S : HasSession(notice[n].to)}, NEW q \in Queues(T)
    PROVE  /\ q \in Seq(Entry) /\ Len(q) <= Limit /\ DOMAIN q = 1..Len(q)
           /\ \A i \in DOMAIN q : \E n \in T : q[i] = [id |-> n, key |-> agent[notice[n].to].key]
           /\ \A i, j \in DOMAIN q : q[i].id = q[j].id => i = j
           /\ T \subseteq {n \in DOMAIN notice : Pending(n)}
<1>1. S \subseteq {n \in DOMAIN notice : Pending(n)} /\ Cardinality(S) <= Limit
  BY DEF Selected, Undelivered
<1>2. T \subseteq S /\ T \subseteq Ids
  BY <1>1, Domains
<1>3. IsFiniteSet(S)
  <2>1. IsFiniteSet(1..MaxNotices)
    BY NoticeAssumption, FS_Interval
  <2>2. S \in SUBSET (1..MaxNotices)
    BY <1>1, Domains DEF Ids
  <2> QED
    BY <2>1, <2>2, FS_Subset
<1>4. Cardinality(T) \in Nat /\ Cardinality(T) <= Limit
  <2>1. IsFiniteSet(T) /\ Cardinality(T) <= Cardinality(S)
    BY <1>2, <1>3, FS_Subset
  <2> QED
    BY <1>1, <1>3, <2>1, FS_CardinalityType, NoticeAssumption
<1>5. \A n \in T : [id |-> n, key |-> agent[notice[n].to].key] \in Entry
  BY <1>2, RowShape DEF Entry, HasSession, Row, Exists
<1>6. q \in [1..Cardinality(T) -> {[id |-> n, key |-> agent[notice[n].to].key] : n \in T}]
        /\ \A i, j \in DOMAIN q : i < j => q[i].id < q[j].id
  BY DEF Queues
<1>7. \A i \in DOMAIN q : \E n \in T : q[i] = [id |-> n, key |-> agent[notice[n].to].key]
  BY <1>6
<1>8. q \in [1..Cardinality(T) -> Entry]
  BY <1>5, <1>6
<1>9. q \in Seq(Entry) /\ Len(q) = Cardinality(T) /\ DOMAIN q = 1..Cardinality(T)
  BY <1>4, <1>8
<1>10. \A i, j \in DOMAIN q : q[i].id = q[j].id => i = j
  <2> SUFFICES ASSUME NEW i \in DOMAIN q, NEW j \in DOMAIN q, q[i].id = q[j].id PROVE i = j
    OBVIOUS
  <2>1. q[i].id \in Nat /\ q[j].id \in Nat
    BY <1>8, <1>9 DEF Entry, Ids
  <2>2. i \in Nat /\ j \in Nat
    BY <1>9
  <2>3. ~(i < j) /\ ~(j < i)
    BY <1>6, <2>1
  <2> QED
    BY <2>2, <2>3
<1> QED
  BY <1>1, <1>2, <1>4, <1>7, <1>9, <1>10

LEMMA DeliverTypes ==
    ASSUME TypeOK, NEW b \in Callers, NEW r \in Agents \cup {None}, Deliver(b, r)
    PROVE  TypeOK'
<1>1. PICK S \in Selected(r) :
        LET T == {n \in S : HasSession(notice[n].to)} IN
        /\ \E q \in Queues(T) : batch' = [batch EXCEPT ![b] = q]
        /\ doubtful' = doubtful \cup {n \in T : Batched(n)}
  BY DEF Deliver
<1> DEFINE T == {n \in S : HasSession(notice[n].to)}
<1>2. PICK q \in Queues(T) : batch' = [batch EXCEPT ![b] = q]
  BY <1>1
<1>3. q \in Seq(Entry) /\ Len(q) <= Limit /\ T \subseteq DOMAIN notice
  <2> HIDE DEF T
  <2>1. T = {n \in S : HasSession(notice[n].to)}
    BY DEF T
  <2> QED
    BY <2>1, QueueFacts
<1>4. doubtful' \subseteq Ids
  BY <1>1, <1>3, Domains DEF TypeOK
<1> QED
  BY <1>2, <1>3, <1>4 DEF TypeOK, Deliver, tables

LEMMA TailTypes ==
    ASSUME TypeOK, NEW b \in Callers, batch[b] # <<>>
    PROVE  /\ Head(batch[b]) \in Entry /\ Head(batch[b]) = batch[b][1] /\ 1 \in DOMAIN batch[b]
           /\ Tail(batch[b]) \in Seq(Entry) /\ Len(Tail(batch[b])) <= Limit
           /\ DOMAIN Tail(batch[b]) = 1..(Len(batch[b]) - 1)
           /\ \A i \in DOMAIN Tail(batch[b]) :
                i + 1 \in DOMAIN batch[b] /\ Tail(batch[b])[i] = batch[b][i + 1]
<1>1. batch[b] \in Seq(Entry) /\ Len(batch[b]) <= Limit
  BY DEF TypeOK
<1>2. Len(batch[b]) \in Nat \ {0} /\ DOMAIN batch[b] = 1..Len(batch[b])
  BY <1>1, EmptySeq, LenProperties
<1>3. /\ Head(batch[b]) \in Entry /\ Tail(batch[b]) \in Seq(Entry)
      /\ Len(Tail(batch[b])) = Len(batch[b]) - 1
      /\ \A i \in 1..Len(Tail(batch[b])) : Tail(batch[b])[i] = batch[b][i + 1]
  BY <1>1, HeadTailProperties
<1>4. DOMAIN Tail(batch[b]) = 1..Len(Tail(batch[b]))
  BY <1>3, LenProperties
<1>5. Head(batch[b]) = batch[b][1]
  BY <1>1, <1>2
<1> QED
  BY <1>1, <1>2, <1>3, <1>4, <1>5, NoticeAssumption

LEMMA ReceivedTypes ==
    ASSUME TypeOK, NEW E \in SUBSET Entry, Received(E)
    PROVE  heard' \in [Ids -> SUBSET Keys] /\ again' \subseteq Ids
BY DEF Received, TypeOK, Entry

LEMMA SentTypes == ASSUME TypeOK, NEW b \in Callers, Sent(b) PROVE TypeOK'
<1> DEFINE e == Head(batch[b])
<1>1. batch[b] # <<>>
  BY DEF Sent
<1>2. e \in Entry /\ Tail(batch[b]) \in Seq(Entry) /\ Len(Tail(batch[b])) <= Limit
  BY <1>1, TailTypes
<1>3. heard' \in [Ids -> SUBSET Keys] /\ again' \subseteq Ids
  <2>1. {e} \in SUBSET Entry /\ Received({e})
    BY <1>2 DEF Sent
  <2> HIDE DEF e
  <2> QED
    BY <2>1, ReceivedTypes
<1>4. notice' \in Seq(Notice) /\ Len(notice') = Len(notice)
  <2>1. \A n \in DOMAIN notice : notice'[n] \in Notice
    BY Domains DEF Sent, Notice
  <2>2. DOMAIN notice' = DOMAIN notice /\ notice' = [n \in DOMAIN notice |-> notice'[n]]
    <3>1. notice \in [1..Len(notice) -> Notice]
      BY LenProperties DEF TypeOK
    <3> QED
      BY <3>1 DEF Sent
  <2>3. notice \in Seq(Notice)
    BY DEF TypeOK
  <2> QED
    BY <2>1, <2>2, <2>3, TableChanged
<1> QED
  BY <1>2, <1>3, <1>4 DEF TypeOK, Sent

LEMMA SendFailsTypes ==
    ASSUME TypeOK, NEW b \in Callers, NEW received \in BOOLEAN, SendFails(b, received)
    PROVE  TypeOK'
<1> DEFINE e == Head(batch[b])
<1>1. batch[b] # <<>>
  BY DEF SendFails
<1>2. e \in Entry /\ Tail(batch[b]) \in Seq(Entry) /\ Len(Tail(batch[b])) <= Limit
  BY <1>1, TailTypes
<1>3. heard' \in [Ids -> SUBSET Keys] /\ again' \subseteq Ids
  <2>1. CASE received
    <3>1. {e} \in SUBSET Entry /\ Received({e})
      BY <1>2, <2>1 DEF SendFails
    <3> HIDE DEF e
    <3> QED
      BY <3>1, ReceivedTypes
  <2>2. CASE ~received
    BY <2>2 DEF SendFails, TypeOK
  <2> QED
    BY <2>1, <2>2
<1>4. doubtful' \subseteq Ids
  BY <1>2 DEF SendFails, TypeOK, Entry
<1> QED
  BY <1>2, <1>3, <1>4 DEF TypeOK, SendFails, tables

LEMMA RestartTypes == ASSUME TypeOK, Restart PROVE TypeOK'
<1>1. PICK R \in SUBSET {b \in Callers : batch[b] # <<>>} :
        LET E == {Head(batch[b]) : b \in R}
        IN  Received(E) /\ doubtful' = doubtful \cup {e.id : e \in E}
  BY DEF Restart
<1> DEFINE E == {Head(batch[b]) : b \in R}
<1>2. E \in SUBSET Entry
  BY TailTypes
<1>3. Received(E) /\ doubtful' = doubtful \cup {e.id : e \in E}
  BY <1>1
<1>4. heard' \in [Ids -> SUBSET Keys] /\ again' \subseteq Ids /\ doubtful' \subseteq Ids
  <2> HIDE DEF E
  <2> QED
    BY <1>2, <1>3, ReceivedTypes DEF TypeOK, Entry
<1>5. batch' \in [Callers -> Seq(Entry)] /\ \A b \in Callers : Len(batch'[b]) <= Limit
  BY NoticeAssumption DEF Restart
<1>6. asks' \subseteq {"message", "wake"} \X Agents
  BY DEF Restart
<1> QED
  BY <1>4, <1>5, <1>6 DEF TypeOK, Restart, tables

---------------------------------------------------------------------------
(* Agents and connections *)

LEMMA InitPresence == Init => Presence
<1> SUFFICES ASSUME Init PROVE Presence
  OBVIOUS
<1>1. \/ conn = <<>>
      \/ \E a \in Agents : Exists(a) /\ conn = <<[agent |-> a, status |-> "connected"]>>
  BY DEF Init
<1>2. \A c \in DOMAIN conn : c = 1 /\ conn[c].agent \in Agents /\ Exists(conn[c].agent)
  BY <1>1
<1>3. \A a \in Agents : Exists(a) => \E k \in Keys : agent[a] = Offline(k)
  BY DEF Init, Exists
<1>4. \A a \in Agents : Exists(a) => agent[a].key \in Keys /\ ~agent[a].seen
  <2> SUFFICES ASSUME NEW a \in Agents, Exists(a)
               PROVE  agent[a].key \in Keys /\ ~agent[a].seen
    OBVIOUS
  <2>1. PICK k \in Keys : agent[a] = [key |-> k, status |-> "offline", seen |-> FALSE]
    BY <1>3 DEF Offline
  <2> QED
    BY <2>1
<1>5. OneConnectionPerAgent /\ HasAgent
  BY <1>2 DEF OneConnectionPerAgent, HasAgent
<1>6. ConnectedIsUp
  BY <1>2, <1>4 DEF ConnectedIsUp
<1>7. KeyIsHeld
  BY <1>4 DEF KeyIsHeld, Init
<1> QED
  BY <1>5, <1>6, <1>7 DEF Presence

\* A step that leaves connections alone.
LEMMA RowStep ==
    ASSUME TypeOK, Presence, UNCHANGED conn, NEW a \in Agents, Exists(a),
           \A x \in Agents \ {a} : agent'[x] = agent[x] /\ held[x] \subseteq held'[x],
           agent'[a] # NoRow,
           agent'[a].key # None => agent'[a].key \in held'[a],
           agent'[a].seen => agent'[a].status # "offline" \/ (agent[a].seen /\ agent'[a].status = agent[a].status)
    PROVE  Presence'
<1>1. OneConnectionPerAgent'
  BY DEF Presence, OneConnectionPerAgent
<1>2. HasAgent'
  BY Domains DEF Presence, HasAgent, Exists, Conn
<1>3. ConnectedIsUp'
  BY DEF Presence, ConnectedIsUp
<1>4. KeyIsHeld'
  BY DEF Presence, KeyIsHeld, Exists
<1> QED
  BY <1>1, <1>2, <1>3, <1>4 DEF Presence

LEMMA SetKeyPresence ==
    ASSUME TypeOK, Presence, NEW a \in Agents, NEW k \in Keys \cup {None}, SetKey(a, k)
    PROVE  Presence'
<1>1. Exists(a) /\ agent[a] \in Row /\ UNCHANGED conn
  BY RowShape DEF SetKey
<1>2. agent' = [agent EXCEPT ![a].key = k] /\ agent'[a] = [agent[a] EXCEPT !.key = k]
  BY DEF SetKey, TypeOK
<1>3. held' = [held EXCEPT ![a] = @ \cup ({k} \ {None})]
  BY DEF SetKey
<1>4. agent'[a] # NoRow /\ agent'[a].key = k /\ agent'[a].seen = agent[a].seen
        /\ agent'[a].status = agent[a].status
  BY <1>1, <1>2 DEF Row, NoRow
<1>5. \A x \in Agents \ {a} : agent'[x] = agent[x] /\ held[x] \subseteq held'[x]
  BY <1>2, <1>3 DEF TypeOK
<1>6. agent'[a].key # None => agent'[a].key \in held'[a]
  BY <1>3, <1>4 DEF TypeOK
<1> QED
  BY <1>1, <1>4, <1>5, <1>6, RowStep

LEMMA SeenPresence ==
    ASSUME TypeOK, Presence, NEW a \in Agents, NEW status \in {"up", "dismissed"}, Exists(a),
           agent' = Seen(a, status), UNCHANGED <<conn, held>>
    PROVE  Presence'
<1>1. agent[a] \in Row
  BY RowShape
<1>2. agent'[a] = [[agent[a] EXCEPT !.status = status] EXCEPT !.seen = TRUE]
  BY DEF Seen, TypeOK
<1>3. agent'[a] # NoRow /\ agent'[a].key = agent[a].key /\ agent'[a].status = status
  BY <1>1, <1>2 DEF Row, NoRow
<1>4. \A x \in Agents \ {a} : agent'[x] = agent[x] /\ held[x] \subseteq held'[x]
  BY DEF Seen, TypeOK
<1>5. agent'[a].key # None => agent'[a].key \in held'[a]
  BY <1>3 DEF Presence, KeyIsHeld
<1> QED
  BY <1>3, <1>4, <1>5, RowStep

LEMMA GrowOldPresence ==
    ASSUME TypeOK, Presence, NEW a \in Agents, GrowOld(a) PROVE Presence'
<1>1. Exists(a) /\ agent[a] \in Row /\ UNCHANGED conn
  BY RowShape DEF GrowOld
<1>2. agent'[a] = [agent[a] EXCEPT !.seen = FALSE]
  BY DEF GrowOld, TypeOK
<1>3. agent'[a] # NoRow /\ agent'[a].key = agent[a].key /\ ~agent'[a].seen
  BY <1>1, <1>2 DEF Row, NoRow
<1>4. \A x \in Agents \ {a} : agent'[x] = agent[x] /\ held[x] \subseteq held'[x]
  BY DEF GrowOld, TypeOK, history
<1>5. agent'[a].key # None => agent'[a].key \in held'[a]
  BY <1>1, <1>3 DEF Presence, KeyIsHeld, GrowOld, history
<1> QED
  BY <1>1, <1>3, <1>4, <1>5, RowStep

\* A new agent has no connection.
LEMMA NewRowPresence ==
    ASSUME TypeOK, Presence, NEW a \in Agents, ~Exists(a), NEW row \in Row,
           agent' = [agent EXCEPT ![a] = row], UNCHANGED conn,
           \A x \in Agents : held[x] \subseteq held'[x],
           row.key # None => row.key \in held'[a]
    PROVE  Presence'
<1>0. agent'[a] = row
  BY DEF TypeOK
<1>1. agent'[a] = row /\ row # NoRow
  <2>1. row = [key |-> row.key, status |-> row.status, seen |-> row.seen]
    BY DEF Row
  <2>2. row # NoRow
    BY <2>1 DEF NoRow
  <2> QED
    BY <1>0, <2>2
<1>2. \A x \in Agents \ {a} : agent'[x] = agent[x]
  BY DEF TypeOK
<1>3. OneConnectionPerAgent'
  BY DEF Presence, OneConnectionPerAgent
<1>4. HasAgent'
  BY <1>1, <1>2, Domains DEF Presence, HasAgent, Exists, Conn
<1>5. ConnectedIsUp'
  <2>1. \A c \in DOMAIN conn : conn[c].status = "connected" => conn[c].agent # a
    BY DEF Presence, HasAgent
  <2> QED
    BY <1>2, <2>1 DEF Presence, ConnectedIsUp
<1>6. KeyIsHeld'
  BY <1>1, <1>2 DEF Presence, KeyIsHeld, Exists
<1> QED
  BY <1>3, <1>4, <1>5, <1>6 DEF Presence

LEMMA CreatePresence ==
    ASSUME TypeOK, Presence, NEW a \in Agents, NEW k \in Keys \cup {None}, NEW status \in Status,
           CreateAgent(a, k, status)
    PROVE  Presence'
<1> DEFINE row == [key |-> k, status |-> status, seen |-> FALSE]
<1>1. row \in Row /\ row.key = k
  BY DEF Row
<1>2. agent' = [agent EXCEPT ![a] = row] /\ UNCHANGED conn /\ ~Exists(a)
  BY DEF CreateAgent
<1>3. (\A x \in Agents : held[x] \subseteq held'[x]) /\ (k # None => k \in held'[a])
  BY DEF CreateAgent, TypeOK
<1> HIDE DEF row
<1> QED
  BY <1>1, <1>2, <1>3, NewRowPresence

LEMMA ConfigPresence ==
    ASSUME TypeOK, Presence, NEW a \in Agents, SyncFromConfig(a) PROVE Presence'
<1>1. Offline(None) \in Row /\ Offline(None).key = None
  BY DEF Offline, Row, Status
<1>2. agent' = [agent EXCEPT ![a] = Offline(None)] /\ UNCHANGED <<conn, held>> /\ ~Exists(a)
  BY DEF SyncFromConfig, history
<1> QED
  BY <1>1, <1>2, NewRowPresence

LEMMA ConductorPresence ==
    ASSUME TypeOK, Presence, NEW a \in Agents, NEW k \in Keys, NEW alive \in BOOLEAN,
           SyncFromConductor(a, k, alive)
    PROVE  Presence'
<1> DEFINE status == IF alive THEN "up" ELSE "dismissed"
           row == [key |-> k, status |-> status, seen |-> TRUE]
<1>1. CASE Exists(a)
  <2>1. agent' = Seen(a, status) /\ UNCHANGED <<conn, held>> /\ status \in {"up", "dismissed"}
    BY <1>1 DEF SyncFromConductor
  <2> HIDE DEF status
  <2> QED
    BY <1>1, <2>1, SeenPresence
<1>2. CASE ~Exists(a)
  <2>1. row \in Row /\ row.key = k
    BY DEF Row, Status
  <2>2. agent' = [agent EXCEPT ![a] = row] /\ UNCHANGED conn
    BY <1>2 DEF SyncFromConductor
  <2>3. (\A x \in Agents : held[x] \subseteq held'[x]) /\ k \in held'[a]
    BY <1>2 DEF SyncFromConductor, TypeOK
  <2> HIDE DEF row
  <2> QED
    BY <1>2, <2>1, <2>2, <2>3, NewRowPresence
<1> QED
  BY <1>1, <1>2

LEMMA SessionPresence ==
    ASSUME TypeOK, Presence, NEW a \in Agents, NEW recent \in BOOLEAN, NEW seen \in BOOLEAN,
           SyncFromSession(a, recent, seen)
    PROVE  Presence'
<1> DEFINE status == IF recent THEN "up" ELSE "dismissed"
<1>1. Exists(a) /\ agent[a] \in Row /\ UNCHANGED <<conn, held>>
  BY RowShape DEF SyncFromSession, history
<1>2. agent' = [agent EXCEPT ![a].status = status, ![a].seen = seen]
  BY DEF SyncFromSession
<1>3. agent'[a] = [[agent[a] EXCEPT !.status = status] EXCEPT !.seen = seen]
  BY <1>2 DEF TypeOK
<1>4. agent'[a] # NoRow /\ agent'[a].key = agent[a].key /\ agent'[a].status = status
        /\ agent'[a].seen = seen
  BY <1>1, <1>3 DEF Row, NoRow
<1>5. \A x \in Agents \ {a} : agent'[x] = agent[x] /\ held[x] \subseteq held'[x]
  BY <1>1, <1>2 DEF TypeOK
<1>6. agent'[a].key # None => agent'[a].key \in held'[a]
  BY <1>1, <1>4 DEF Presence, KeyIsHeld
<1>7. agent'[a].seen => agent'[a].status # "offline"
  BY <1>1, <1>4
<1> HIDE DEF status
<1> QED
  BY <1>1, <1>4, <1>5, <1>6, <1>7, RowStep

LEMMA DeletePresence ==
    ASSUME TypeOK, Presence, NEW a \in Agents, DeleteAgent(a) PROVE Presence'
<1>1. agent' = [agent EXCEPT ![a] = NoRow] /\ UNCHANGED held
  BY DEF DeleteAgent, history
<1>2. \A x \in Agents \ {a} : agent'[x] = agent[x]
  BY <1>1 DEF TypeOK
<1>3. DOMAIN conn' = DOMAIN conn
  BY DEF DeleteAgent
<1>4. \A c \in DOMAIN conn' :
        /\ conn'[c].status # "gone" => conn[c].agent # a /\ conn'[c] = conn[c]
        /\ conn'[c].agent = conn[c].agent
  BY <1>3, Domains DEF DeleteAgent, Conn
<1>5. OneConnectionPerAgent'
  BY <1>3, <1>4 DEF Presence, OneConnectionPerAgent
<1>6. HasAgent'
  BY <1>2, <1>3, <1>4, Domains DEF Presence, HasAgent, Exists, Conn
<1>7. ConnectedIsUp'
  BY <1>2, <1>3, <1>4, Domains DEF Presence, ConnectedIsUp, Conn
<1>8. KeyIsHeld'
  BY <1>1, <1>2 DEF Presence, KeyIsHeld, Exists, TypeOK
<1> QED
  BY <1>5, <1>6, <1>7, <1>8 DEF Presence

\* A new connection takes the place of the one there was.
LEMMA ConnectPresence ==
    ASSUME TypeOK, Presence, NEW a \in Agents, ConnectCli(a) PROVE Presence'
<1> DEFINE new == Len(conn) + 1
<1>1. UNCHANGED held /\ conn' = Append(Replaced(a), [agent |-> a, status |-> "connected"])
  BY DEF ConnectCli, history
<1>2. [agent |-> a, status |-> "connected"] \in Conn
  BY DEF Conn
<1>3. /\ DOMAIN conn' = 1..new /\ conn'[new] = [agent |-> a, status |-> "connected"]
      /\ \A c \in DOMAIN conn : conn'[c] = Replaced(a)[c]
  <2>1. Replaced(a) \in Seq(Conn) /\ Len(Replaced(a)) = Len(conn)
    BY ReplacedTypes
  <2> QED
    BY <1>1, <1>2, <2>1, AppendProperties, LenProperties, Domains
<1>4. \A c \in DOMAIN conn :
        /\ conn'[c].agent = conn[c].agent
        /\ conn'[c].status = "connected" => conn[c].status = "connected" /\ conn[c].agent # a
        /\ conn'[c].status = "gone" <=> conn[c].status = "gone"
  BY <1>3, Domains DEF Replaced, Conn
<1>5. new \notin DOMAIN conn /\ DOMAIN conn' = DOMAIN conn \cup {new}
  BY <1>3, Domains
<1>6. \A x \in Agents \ {a} : agent'[x] = agent[x]
  BY DEF ConnectCli, TypeOK
<1>7. agent'[a] # NoRow /\ agent'[a].status = "up"
        /\ agent'[a].key = IF Exists(a) THEN agent[a].key ELSE None
  <2>1. CASE Exists(a)
    <3>1. agent[a] \in Row /\ agent'[a] = [agent[a] EXCEPT !.status = "up"]
      BY <2>1, RowShape DEF ConnectCli, TypeOK
    <3> QED
      BY <2>1, <3>1 DEF Row, NoRow
  <2>2. CASE ~Exists(a)
    <3>1. agent'[a] = [key |-> None, status |-> "up", seen |-> FALSE]
      BY <2>2 DEF ConnectCli, TypeOK
    <3> QED
      BY <2>2, <3>1 DEF NoRow
  <2> QED
    BY <2>1, <2>2
<1> HIDE DEF new
<1>8. OneConnectionPerAgent'
  <2> SUFFICES ASSUME NEW c \in DOMAIN conn', NEW d \in DOMAIN conn',
                      conn'[c].status = "connected", conn'[d].status = "connected",
                      conn'[c].agent = conn'[d].agent
               PROVE  c = d
    BY DEF OneConnectionPerAgent
  <2>1. conn'[new].agent = a
    BY <1>3
  <2>2. CASE c = new \/ d = new
    BY <2>1, <2>2, <1>4, <1>5
  <2>3. CASE c \in DOMAIN conn /\ d \in DOMAIN conn
    BY <2>3, <1>4 DEF Presence, OneConnectionPerAgent
  <2> QED
    BY <2>2, <2>3, <1>5
<1>9. HasAgent'
  <2> SUFFICES ASSUME NEW c \in DOMAIN conn', conn'[c].status # "gone"
               PROVE  agent'[conn'[c].agent] # NoRow
    BY DEF HasAgent, Exists
  <2>1. CASE c = new
    BY <2>1, <1>3, <1>7
  <2>2. CASE c \in DOMAIN conn
    <3>1. conn[c].agent \in Agents /\ agent[conn[c].agent] # NoRow
      BY <2>2, <1>4, Domains DEF Presence, HasAgent, Exists, Conn
    <3> QED
      BY <2>2, <3>1, <1>4, <1>6, <1>7
  <2> QED
    BY <2>1, <2>2, <1>5
<1>10. ConnectedIsUp'
  <2> SUFFICES ASSUME NEW x \in Agents, NEW c \in DOMAIN conn', conn'[c].agent = x,
                      conn'[c].status = "connected", agent'[x].seen
               PROVE  agent'[x].status # "offline"
    BY DEF ConnectedIsUp
  <2>1. CASE x = a
    BY <2>1, <1>7
  <2>2. CASE x # a
    <3>0. conn'[new].agent = a
      BY <1>3
    <3>1. c \in DOMAIN conn
      BY <2>2, <3>0, <1>5
    <3>2. conn[c].agent = x /\ conn[c].status = "connected" /\ agent'[x] = agent[x]
      BY <2>2, <3>1, <1>4, <1>6
    <3> QED
      BY <3>1, <3>2 DEF Presence, ConnectedIsUp
  <2> QED
    BY <2>1, <2>2
<1>11. KeyIsHeld'
  BY <1>1, <1>6, <1>7 DEF Presence, KeyIsHeld, Exists
<1> QED
  BY <1>8, <1>9, <1>10, <1>11 DEF Presence

LEMMA DisconnectPresence ==
    ASSUME TypeOK, Presence, NEW c \in DOMAIN conn, DisconnectCli(c) PROVE Presence'
<1> DEFINE a == conn[c].agent
<1>1. conn[c] \in Conn /\ conn[c].status # "gone" /\ a \in Agents /\ UNCHANGED held
  BY Domains DEF DisconnectCli, Conn, history
<1>2. /\ DOMAIN conn' = DOMAIN conn
      /\ \A d \in DOMAIN conn : d # c => conn'[d] = conn[d]
      /\ conn'[c].agent = a /\ conn'[c].status = "disconnected"
  BY <1>1 DEF DisconnectCli, Conn
<1>3. Exists(a) /\ agent[a] \in Row
  BY <1>1, RowShape DEF Presence, HasAgent
<1>4. /\ \A x \in Agents \ {a} : agent'[x] = agent[x]
      /\ agent'[a] # NoRow /\ agent'[a].key = agent[a].key
      /\ agent'[a] # agent[a] => Others(c) = {}
  BY <1>1, <1>3 DEF DisconnectCli, TypeOK, Row, NoRow, Exists
<1>5. OneConnectionPerAgent'
  BY <1>1, <1>2 DEF Presence, OneConnectionPerAgent
<1>6. HasAgent'
  BY <1>2, <1>4, Domains DEF Presence, HasAgent, Exists, Conn
<1>7. ConnectedIsUp'
  <2> SUFFICES ASSUME NEW x \in Agents, NEW d \in DOMAIN conn',
                      conn'[d].agent = x, conn'[d].status = "connected", agent'[x].seen
               PROVE  agent'[x].status # "offline"
    BY DEF ConnectedIsUp
  <2>1. d # c /\ conn[d].agent = x /\ conn[d].status = "connected"
    BY <1>2
  <2>2. x = a => d \in Others(c)
    BY <1>2, <2>1 DEF Others
  <2>3. agent'[x] = agent[x]
    BY <1>4, <2>2
  <2> QED
    BY <1>2, <2>1, <2>3 DEF Presence, ConnectedIsUp
<1>8. KeyIsHeld'
  BY <1>1, <1>3, <1>4 DEF Presence, KeyIsHeld, Exists
<1> QED
  BY <1>5, <1>6, <1>7, <1>8 DEF Presence

LEMMA HeartbeatCheckPresence ==
    ASSUME TypeOK, Presence, NEW S \in SUBSET Stale, HeartbeatCheck(S)
    PROVE  Presence'
<1>1. UNCHANGED <<conn, held>>
  BY DEF HeartbeatCheck, history
<1>2. \A a \in Agents :
        /\ agent'[a] = NoRow <=> agent[a] = NoRow
        /\ agent[a] # NoRow =>
             /\ agent'[a].key = agent[a].key /\ agent'[a].seen = agent[a].seen
             /\ agent[a].seen => agent'[a] = agent[a]
  <2> SUFFICES ASSUME NEW a \in Agents
               PROVE  /\ agent'[a] = NoRow <=> agent[a] = NoRow
                      /\ agent[a] # NoRow =>
                           /\ agent'[a].key = agent[a].key /\ agent'[a].seen = agent[a].seen
                           /\ agent[a].seen => agent'[a] = agent[a]
    OBVIOUS
  <2>1. CASE a \in S
    <3>1. agent[a] \in Row /\ ~agent[a].seen /\ agent'[a] = [agent[a] EXCEPT !.status = "offline"]
      BY <2>1, RowShape DEF HeartbeatCheck, Stale
    <3> QED
      BY <3>1 DEF Row, NoRow
  <2>2. CASE a \notin S
    BY <2>2 DEF HeartbeatCheck
  <2> QED
    BY <2>1, <2>2
<1>3. OneConnectionPerAgent'
  BY <1>1 DEF Presence, OneConnectionPerAgent
<1>4. HasAgent'
  BY <1>1, <1>2, Domains DEF Presence, HasAgent, Exists, Conn
<1>5. ConnectedIsUp'
  <2>1. \A a \in Agents, c \in DOMAIN conn :
          conn[c].agent = a /\ conn[c].status = "connected" => agent[a] # NoRow
    BY DEF Presence, HasAgent, Exists
  <2> QED
    BY <1>1, <1>2, <2>1 DEF Presence, ConnectedIsUp
<1>6. KeyIsHeld'
  BY <1>1, <1>2 DEF Presence, KeyIsHeld, Exists
<1> QED
  BY <1>3, <1>4, <1>5, <1>6 DEF Presence

LEMMA PresenceKept == ASSUME Presence, UNCHANGED <<agent, conn, held>> PROVE Presence'
BY DEF Presence, OneConnectionPerAgent, HasAgent, ConnectedIsUp, KeyIsHeld, Exists

---------------------------------------------------------------------------
(* Notices and batches *)

LEMMA InitDelivery == Init => Delivery
<1> SUFFICES ASSUME Init PROVE Delivery
  OBVIOUS
<1>1. DOMAIN notice = {} /\ \A b \in Callers : DOMAIN batch[b] = {}
  BY DEF Init
<1>2. again = {} /\ \A n \in Ids : heard[n] = {}
  BY DEF Init
<1> QED
  BY <1>1, <1>2 DEF Delivery, DeliveredReachedItsAgent, HeardAgainIsDoubtful, UnbornIsUnheard,
     BatchIsOwned, PendingHeardIsDoubtful, BatchedHeardIsDoubtful, BatchedTwiceIsDoubtful

\* A step that sends nothing: notices come, are acknowledged and deleted, and
\* agents get new sessions.
LEMMA NothingSent ==
    ASSUME TypeOK, TypeOK', Delivery,
           UNCHANGED <<batch, heard, again, doubtful>>,
           \A a \in Agents : held[a] \subseteq held'[a],
           DOMAIN notice \subseteq DOMAIN notice',
           \A n \in DOMAIN notice :
              /\ notice'[n].to = notice[n].to
              /\ notice'[n].state # notice[n].state => notice'[n].state \in {"acked", "gone"},
           \A n \in DOMAIN notice' \ DOMAIN notice : notice'[n].state = "pending"
    PROVE  Delivery'
<1>0. DOMAIN notice' \subseteq Ids
  <2>1. notice' \in Seq(Notice) /\ Len(notice') <= MaxNotices
    BY DEF TypeOK
  <2>2. DOMAIN notice' = 1..Len(notice') /\ Len(notice') \in Nat
    BY <2>1, LenProperties
  <2> QED
    BY <2>1, <2>2, NoticeAssumption DEF Ids
<1>1. DeliveredReachedItsAgent'
  <2> SUFFICES ASSUME NEW n \in DOMAIN notice'
               PROVE  /\ notice'[n].state = "delivered" => heard[n] # {}
                      /\ notice'[n].to = System => heard[n] = {}
                      /\ notice'[n].to \in Agents => heard[n] \subseteq held'[notice'[n].to]
    BY DEF DeliveredReachedItsAgent
  <2>1. CASE n \in DOMAIN notice
    BY <2>1 DEF Delivery, DeliveredReachedItsAgent
  <2>2. CASE n \notin DOMAIN notice
    <3>1. n \in Ids /\ notice'[n].state = "pending"
      BY <2>2, <1>0
    <3>2. heard[n] = {}
      BY <2>2, <3>1 DEF Delivery, UnbornIsUnheard
    <3> QED
      BY <3>1, <3>2
  <2> QED
    BY <2>1, <2>2
<1>2. HeardAgainIsDoubtful'
  BY DEF Delivery, HeardAgainIsDoubtful
<1>3. UnbornIsUnheard'
  BY DEF Delivery, UnbornIsUnheard
<1>4. BatchIsOwned'
  BY DEF Delivery, BatchIsOwned
<1>5. PendingHeardIsDoubtful'
  <2> SUFFICES ASSUME NEW n \in DOMAIN notice', notice'[n].state = "pending", heard[n] # {}
               PROVE  n \in doubtful
    BY DEF PendingHeardIsDoubtful, Pending
  <2>1. n \in DOMAIN notice
    BY <1>0 DEF Delivery, UnbornIsUnheard
  <2>2. notice[n].state = "pending"
    BY <2>1
  <2> QED
    BY <2>1, <2>2 DEF Delivery, PendingHeardIsDoubtful, Pending
<1>6. BatchedHeardIsDoubtful' /\ BatchedTwiceIsDoubtful'
  BY DEF Delivery, BatchedHeardIsDoubtful, BatchedTwiceIsDoubtful
<1> QED
  BY <1>1, <1>2, <1>3, <1>4, <1>5, <1>6 DEF Delivery

\* A batch is selected.
LEMMA DeliverDelivery ==
    ASSUME TypeOK, Presence, Delivery, NEW b \in Callers, NEW r \in Agents \cup {None}, Deliver(b, r)
    PROVE  Delivery'
<1>1. PICK S \in Selected(r) :
        LET T == {n \in S : HasSession(notice[n].to)} IN
        /\ \E q \in Queues(T) : batch' = [batch EXCEPT ![b] = q]
        /\ doubtful' = doubtful \cup {n \in T : Batched(n)}
  BY DEF Deliver
<1> DEFINE T == {n \in S : HasSession(notice[n].to)}
<1>2. PICK q \in Queues(T) : batch' = [batch EXCEPT ![b] = q]
  BY <1>1
<1>3. doubtful' = doubtful \cup {n \in T : Batched(n)} /\ T = {n \in S : HasSession(notice[n].to)}
  BY <1>1
<1> HIDE DEF T
<1>4. /\ DOMAIN q = 1..Len(q)
      /\ \A i \in DOMAIN q : \E n \in T : q[i] = [id |-> n, key |-> agent[notice[n].to].key]
      /\ \A i, j \in DOMAIN q : q[i].id = q[j].id => i = j
      /\ T \subseteq {n \in DOMAIN notice : Pending(n)}
  BY <1>3, QueueFacts
<1>5. UNCHANGED <<notice, heard, again, held>> /\ batch[b] = <<>>
  BY DEF Deliver, tables
<1>6. batch'[b] = q /\ \A c \in Callers \ {b} : batch'[c] = batch[c]
  BY <1>2 DEF TypeOK
<1>7. \A i \in DOMAIN q :
        /\ q[i].id \in T /\ q[i].id \in DOMAIN notice /\ Pending(q[i].id)
        /\ q[i].key = agent[notice[q[i].id].to].key /\ HasSession(notice[q[i].id].to)
  <2> SUFFICES ASSUME NEW i \in DOMAIN q
               PROVE  /\ q[i].id \in T /\ q[i].id \in DOMAIN notice /\ Pending(q[i].id)
                      /\ q[i].key = agent[notice[q[i].id].to].key /\ HasSession(notice[q[i].id].to)
    OBVIOUS
  <2>1. PICK n \in T : q[i] = [id |-> n, key |-> agent[notice[n].to].key]
    BY <1>4
  <2>2. q[i].id = n /\ q[i].key = agent[notice[n].to].key
    BY <2>1
  <2> QED
    BY <2>2, <1>3, <1>4
<1>8. DeliveredReachedItsAgent' /\ HeardAgainIsDoubtful' /\ UnbornIsUnheard'
  BY <1>3, <1>5 DEF Delivery, DeliveredReachedItsAgent, HeardAgainIsDoubtful, UnbornIsUnheard
<1>9. PendingHeardIsDoubtful'
  BY <1>3, <1>5 DEF Delivery, PendingHeardIsDoubtful, Pending
<1>10. BatchIsOwned'
  <2> SUFFICES ASSUME NEW c \in Callers, NEW i \in DOMAIN batch'[c]
               PROVE  /\ batch'[c][i].id \in DOMAIN notice /\ notice[batch'[c][i].id].to \in Agents
                      /\ batch'[c][i].key \in held[notice[batch'[c][i].id].to]
    BY <1>5 DEF BatchIsOwned
  <2>1. CASE c = b
    <3>1. q[i].id \in DOMAIN notice /\ q[i].key = agent[notice[q[i].id].to].key
            /\ HasSession(notice[q[i].id].to)
      BY <2>1, <1>6, <1>7
    <3> QED
      BY <2>1, <3>1, <1>6 DEF HasSession, Presence, KeyIsHeld, Exists
  <2>2. CASE c # b
    BY <2>2, <1>6 DEF Delivery, BatchIsOwned
  <2> QED
    BY <2>1, <2>2
<1>11. BatchedHeardIsDoubtful'
  <2> SUFFICES ASSUME NEW c \in Callers, NEW i \in DOMAIN batch'[c], heard[batch'[c][i].id] # {}
               PROVE  batch'[c][i].id \in doubtful'
    BY <1>5 DEF BatchedHeardIsDoubtful
  <2>1. CASE c = b
    BY <2>1, <1>3, <1>6, <1>7 DEF Delivery, PendingHeardIsDoubtful
  <2>2. CASE c # b
    BY <2>2, <1>3, <1>6 DEF Delivery, BatchedHeardIsDoubtful
  <2> QED
    BY <2>1, <2>2
<1>12. BatchedTwiceIsDoubtful'
  <2> SUFFICES ASSUME NEW c \in Callers, NEW d \in Callers,
                      NEW i \in DOMAIN batch'[c], NEW j \in DOMAIN batch'[d],
                      batch'[c][i].id = batch'[d][j].id, ~(c = d /\ i = j)
               PROVE  batch'[c][i].id \in doubtful'
    BY DEF BatchedTwiceIsDoubtful
  <2>1. CASE c = b /\ d = b
    BY <2>1, <1>4, <1>6
  <2>2. CASE c = b /\ d # b
    <3>1. q[i].id \in T /\ batch[d][j].id = q[i].id /\ j \in DOMAIN batch[d]
      BY <2>2, <1>6, <1>7
    <3> QED
      BY <2>2, <3>1, <1>3, <1>6 DEF Batched
  <2>3. CASE c # b /\ d = b
    <3>1. q[j].id \in T /\ batch[c][i].id = q[j].id /\ i \in DOMAIN batch[c]
      BY <2>3, <1>6, <1>7
    <3> QED
      BY <2>3, <3>1, <1>3, <1>6 DEF Batched
  <2>4. CASE c # b /\ d # b
    BY <2>4, <1>3, <1>6 DEF Delivery, BatchedTwiceIsDoubtful
  <2> QED
    BY <2>1, <2>2, <2>3, <2>4
<1> QED
  BY <1>8, <1>9, <1>10, <1>11, <1>12 DEF Delivery

\* What is received adds to what was heard.
LEMMA ReceivedFacts ==
    ASSUME TypeOK, NEW E \in SUBSET Entry, Received(E)
    PROVE  /\ \A n \in Ids : \A k \in heard'[n] :
                k \in heard[n] \/ \E e \in E : e.id = n /\ e.key = k
           /\ \A n \in Ids : heard[n] \subseteq heard'[n]
           /\ \A e \in E : e.id \in Ids /\ heard'[e.id] # {}
           /\ \A n \in again' : n \in again \/ \E e \in E : e.id = n /\ heard[n] # {}
<1>1. \A n \in Ids : heard'[n] = heard[n] \cup {e.key : e \in {x \in E : x.id = n}}
  BY DEF Received
<1>2. again' = again \cup {e.id : e \in {x \in E : heard[x.id] # {}}}
  BY DEF Received
<1>3. \A e \in E : e.id \in Ids
  BY DEF Entry
<1> QED
  BY <1>1, <1>2, <1>3

\* The first entry of a batch is done with.
LEMMA HeadDone ==
    ASSUME TypeOK, Delivery, NEW b \in Callers, batch[b] # <<>>,
           NEW e, e = Head(batch[b]),
           batch' = [batch EXCEPT ![b] = Tail(@)],
           held' = held,
           doubtful \subseteq doubtful',
           \A n \in Ids : heard[n] \subseteq heard'[n],
           \A n \in Ids : \A k \in heard'[n] : k \in heard[n] \/ (n = e.id /\ k = e.key),
           \A n \in again' : n \in again \/ (n = e.id /\ heard[n] # {}),
           DOMAIN notice' = DOMAIN notice,
           \A n \in DOMAIN notice :
              /\ notice'[n].to = notice[n].to
              /\ notice'[n].state # notice[n].state =>
                   n = e.id /\ notice'[n].state = "delivered" /\ heard'[n] # {},
           heard'[e.id] = heard[e.id] \/ e.id \in doubtful' \/ notice'[e.id].state # "pending"
    PROVE  Delivery'
<1>1. 1 \in DOMAIN batch[b] /\ e = batch[b][1] /\ e \in Entry
  BY TailTypes
<1>2. e.id \in DOMAIN notice /\ e.id \in Ids /\ notice[e.id].to \in Agents
        /\ e.key \in held[notice[e.id].to] /\ (heard[e.id] # {} => e.id \in doubtful)
  BY <1>1 DEF Delivery, BatchIsOwned, BatchedHeardIsDoubtful, Entry
<1>3. \A c \in Callers : \A i \in DOMAIN batch'[c] :
        \E j \in DOMAIN batch[c] :
            /\ batch'[c][i] = batch[c][j]
            /\ c = b => j = i + 1 /\ j # 1
            /\ c # b => j = i
  <2> SUFFICES ASSUME NEW c \in Callers, NEW i \in DOMAIN batch'[c]
               PROVE  \E j \in DOMAIN batch[c] :
                         /\ batch'[c][i] = batch[c][j]
                         /\ c = b => j = i + 1 /\ j # 1
                         /\ c # b => j = i
    OBVIOUS
  <2>1. CASE c = b
    <3>1. batch'[b] = Tail(batch[b])
      BY DEF TypeOK
    <3>2. i \in 1..(Len(batch[b]) - 1) /\ i + 1 \in DOMAIN batch[b]
            /\ Tail(batch[b])[i] = batch[b][i + 1] /\ Len(batch[b]) \in Nat
      BY <2>1, <3>1, TailTypes, Domains
    <3>3. batch'[b][i] = batch[b][i + 1]
      BY <3>1, <3>2
    <3>4. i + 1 # 1
      BY <3>2
    <3> QED
      BY <2>1, <3>2, <3>3, <3>4
  <2>2. CASE c # b
    BY <2>2 DEF TypeOK
  <2> QED
    BY <2>1, <2>2
<1>4. \A c \in Callers : \A i \in DOMAIN batch'[c] :
        batch'[c][i].id = e.id => e.id \in doubtful
  <2> SUFFICES ASSUME NEW c \in Callers, NEW i \in DOMAIN batch'[c], batch'[c][i].id = e.id
               PROVE  e.id \in doubtful
    OBVIOUS
  <2>1. PICK j \in DOMAIN batch[c] : batch'[c][i] = batch[c][j] /\ (c = b => j # 1)
    BY <1>3
  <2>2. batch[b][1].id = batch[c][j].id /\ ~(b = c /\ 1 = j)
    BY <1>1, <2>1
  <2> QED
    BY <1>1, <2>2 DEF Delivery, BatchedTwiceIsDoubtful
<1>5. DeliveredReachedItsAgent'
  <2> SUFFICES ASSUME NEW n \in DOMAIN notice
               PROVE  /\ notice'[n].state = "delivered" => heard'[n] # {}
                      /\ notice[n].to = System => heard'[n] = {}
                      /\ notice[n].to \in Agents => heard'[n] \subseteq held[notice[n].to]
    BY DEF DeliveredReachedItsAgent
  <2>1. n \in Ids
    BY Domains
  <2>2. /\ notice[n].state = "delivered" => heard[n] # {}
        /\ notice[n].to = System => heard[n] = {}
        /\ notice[n].to \in Agents => heard[n] \subseteq held[notice[n].to]
    BY DEF Delivery, DeliveredReachedItsAgent
  <2>3. notice'[n].state = "delivered" => heard'[n] # {}
    BY <2>1, <2>2
  <2>4. notice[n].to = System => n # e.id
    BY <1>2, NoticeAssumption
  <2> QED
    BY <1>2, <2>1, <2>2, <2>3, <2>4
<1>6. HeardAgainIsDoubtful'
  BY <1>2 DEF Delivery, HeardAgainIsDoubtful
<1>7. UnbornIsUnheard'
  BY <1>2 DEF Delivery, UnbornIsUnheard
<1>8. BatchIsOwned'
  BY <1>3 DEF Delivery, BatchIsOwned
<1>9. PendingHeardIsDoubtful'
  <2> SUFFICES ASSUME NEW n \in DOMAIN notice, notice'[n].state = "pending", heard'[n] # {}
               PROVE  n \in doubtful'
    BY DEF PendingHeardIsDoubtful, Pending
  <2>1. n \in Ids /\ notice[n].state = "pending"
    BY Domains
  <2>2. CASE heard[n] # {}
    BY <2>1, <2>2 DEF Delivery, PendingHeardIsDoubtful, Pending
  <2>3. CASE heard[n] = {}
    <3>1. n = e.id /\ heard'[n] # heard[n]
      BY <2>1, <2>3
    <3> QED
      BY <3>1
  <2> QED
    BY <2>2, <2>3
<1>10. BatchedHeardIsDoubtful'
  <2> SUFFICES ASSUME NEW c \in Callers, NEW i \in DOMAIN batch'[c], heard'[batch'[c][i].id] # {}
               PROVE  batch'[c][i].id \in doubtful'
    BY DEF BatchedHeardIsDoubtful
  <2> DEFINE n == batch'[c][i].id
  <2>1. PICK j \in DOMAIN batch[c] : batch'[c][i] = batch[c][j]
    BY <1>3
  <2>2. n \in Ids /\ (heard[n] # {} => n \in doubtful)
    BY <2>1, Domains DEF Delivery, BatchedHeardIsDoubtful, Entry
  <2>3. CASE n = e.id
    BY <2>3, <1>4
  <2>4. CASE n # e.id
    BY <2>2, <2>4
  <2> QED
    BY <2>3, <2>4
<1>11. BatchedTwiceIsDoubtful'
  <2> SUFFICES ASSUME NEW c \in Callers, NEW d \in Callers,
                      NEW i \in DOMAIN batch'[c], NEW j \in DOMAIN batch'[d],
                      batch'[c][i].id = batch'[d][j].id, ~(c = d /\ i = j)
               PROVE  batch'[c][i].id \in doubtful'
    BY DEF BatchedTwiceIsDoubtful
  <2>1. PICK k \in DOMAIN batch[c] :
          batch'[c][i] = batch[c][k] /\ (c = b => k = i + 1) /\ (c # b => k = i)
    BY <1>3
  <2>2. PICK l \in DOMAIN batch[d] :
          batch'[d][j] = batch[d][l] /\ (d = b => l = j + 1) /\ (d # b => l = j)
    BY <1>3
  <2>3. batch[c][k].id = batch[d][l].id
    BY <2>1, <2>2
  <2>4. ~(c = d /\ k = l)
    <3>1. CASE c # d
      BY <3>1
    <3>2. CASE c = d /\ c # b
      BY <3>2, <2>1, <2>2
    <3>3. CASE c = d /\ c = b
      <4>1. k = i + 1 /\ l = j + 1 /\ i # j
        BY <3>3, <2>1, <2>2
      <4>2. i \in Nat /\ j \in Nat
        <5>1. batch'[b] = Tail(batch[b])
          BY DEF TypeOK
        <5> QED
          BY <3>3, <5>1, TailTypes, Domains
      <4> QED
        BY <4>1, <4>2
    <3> QED
      BY <3>1, <3>2, <3>3
  <2> QED
    BY <2>1, <2>3, <2>4 DEF Delivery, BatchedTwiceIsDoubtful
<1> QED
  BY <1>5, <1>6, <1>7, <1>8, <1>9, <1>10, <1>11 DEF Delivery

LEMMA SentDelivery == ASSUME TypeOK, Delivery, NEW b \in Callers, Sent(b) PROVE Delivery'
<1> DEFINE e == Head(batch[b])
<1>1. /\ batch[b] # <<>> /\ batch' = [batch EXCEPT ![b] = Tail(@)]
      /\ UNCHANGED <<held, doubtful>> /\ Received({e})
      /\ notice' = IF notice[e.id].state = "gone" THEN notice
                   ELSE [notice EXCEPT ![e.id].state = "delivered"]
  BY DEF Sent
<1>2. {e} \in SUBSET Entry /\ e.id \in DOMAIN notice
  BY <1>1, TailTypes DEF Delivery, BatchIsOwned
<1>3. e = Head(batch[b])
  OBVIOUS
<1> HIDE DEF e
<1>4. /\ \A n \in Ids : heard[n] \subseteq heard'[n]
      /\ \A n \in Ids : \A k \in heard'[n] : k \in heard[n] \/ (n = e.id /\ k = e.key)
      /\ \A n \in again' : n \in again \/ (n = e.id /\ heard[n] # {})
      /\ heard'[e.id] # {}
  BY <1>1, <1>2, ReceivedFacts
<1>5. DOMAIN notice' = DOMAIN notice
  BY <1>1
<1>6. \A n \in DOMAIN notice :
        /\ notice'[n].to = notice[n].to
        /\ notice'[n].state # notice[n].state =>
             n = e.id /\ notice'[n].state = "delivered" /\ heard'[n] # {}
        /\ notice'[e.id].state # "pending"
  BY <1>1, <1>2, <1>4, Domains DEF Notice
<1> QED
  BY <1>1, <1>2, <1>3, <1>4, <1>5, <1>6, HeadDone

LEMMA SendFailsDelivery ==
    ASSUME TypeOK, Delivery, NEW b \in Callers, NEW received \in BOOLEAN, SendFails(b, received)
    PROVE  Delivery'
<1> DEFINE e == Head(batch[b])
<1>1. batch[b] # <<>> /\ batch' = [batch EXCEPT ![b] = Tail(@)] /\ UNCHANGED <<held, notice>>
  BY DEF SendFails, tables
<1>2. {e} \in SUBSET Entry
  BY <1>1, TailTypes
<1>3. CASE received
  <2>1. Received({e}) /\ doubtful' = doubtful \cup {e.id} /\ e = Head(batch[b])
    BY <1>3 DEF SendFails
  <2> HIDE DEF e
  <2>2. /\ \A n \in Ids : heard[n] \subseteq heard'[n]
        /\ \A n \in Ids : \A k \in heard'[n] : k \in heard[n] \/ (n = e.id /\ k = e.key)
        /\ \A n \in again' : n \in again \/ (n = e.id /\ heard[n] # {})
        /\ doubtful \subseteq doubtful' /\ e.id \in doubtful'
    BY <1>2, <2>1, ReceivedFacts
  <2> QED
    BY <1>1, <2>1, <2>2, HeadDone
<1>4. CASE ~received
  <2>1. UNCHANGED <<heard, again, doubtful>> /\ e = Head(batch[b])
    BY <1>4 DEF SendFails
  <2> HIDE DEF e
  <2> QED
    BY <1>1, <2>1, HeadDone
<1> QED
  BY <1>3, <1>4

LEMMA RestartDelivery == ASSUME TypeOK, Delivery, Restart PROVE Delivery'
<1>1. PICK R \in SUBSET {b \in Callers : batch[b] # <<>>} :
        LET E == {Head(batch[b]) : b \in R}
        IN  Received(E) /\ doubtful' = doubtful \cup {e.id : e \in E}
  BY DEF Restart
<1> DEFINE E == {Head(batch[b]) : b \in R}
<1>2. Received(E) /\ doubtful' = doubtful \cup {e.id : e \in E}
  BY <1>1
<1>3. UNCHANGED <<notice, held>> /\ \A b \in Callers : DOMAIN batch'[b] = {}
  BY DEF Restart, tables
<1>4. E \in SUBSET Entry
  BY TailTypes
<1>5. \A e \in E : e.id \in DOMAIN notice /\ notice[e.id].to \in Agents
                     /\ e.key \in held[notice[e.id].to]
  BY TailTypes DEF Delivery, BatchIsOwned
<1> HIDE DEF E
<1>6. /\ \A n \in Ids : \A k \in heard'[n] : k \in heard[n] \/ \E e \in E : e.id = n /\ e.key = k
      /\ \A n \in Ids : heard[n] \subseteq heard'[n]
      /\ \A n \in again' : n \in again \/ \E e \in E : e.id = n
  BY <1>2, <1>4, ReceivedFacts
<1>7. DeliveredReachedItsAgent'
  <2> SUFFICES ASSUME NEW n \in DOMAIN notice
               PROVE  /\ notice[n].state = "delivered" => heard'[n] # {}
                      /\ notice[n].to = System => heard'[n] = {}
                      /\ notice[n].to \in Agents => heard'[n] \subseteq held[notice[n].to]
    BY <1>3 DEF DeliveredReachedItsAgent
  <2>1. n \in Ids
    BY Domains
  <2>2. /\ notice[n].state = "delivered" => heard[n] # {}
        /\ notice[n].to = System => heard[n] = {}
        /\ notice[n].to \in Agents => heard[n] \subseteq held[notice[n].to]
    BY DEF Delivery, DeliveredReachedItsAgent
  <2>3. notice[n].to = System => \A e \in E : e.id # n
    BY <1>5, NoticeAssumption
  <2> QED
    BY <1>5, <1>6, <2>1, <2>2, <2>3
<1>8. HeardAgainIsDoubtful'
  BY <1>2, <1>6 DEF Delivery, HeardAgainIsDoubtful
<1>9. UnbornIsUnheard'
  BY <1>3, <1>5, <1>6 DEF Delivery, UnbornIsUnheard
<1>10. PendingHeardIsDoubtful'
  <2> SUFFICES ASSUME NEW n \in DOMAIN notice, notice[n].state = "pending", heard'[n] # {}
               PROVE  n \in doubtful'
    BY <1>3 DEF PendingHeardIsDoubtful, Pending
  <2>1. n \in Ids
    BY Domains
  <2>2. CASE heard[n] # {}
    BY <2>2, <1>2 DEF Delivery, PendingHeardIsDoubtful, Pending
  <2>3. CASE heard[n] = {}
    <3>1. \E e \in E : e.id = n
      BY <2>1, <2>3, <1>6
    <3> QED
      BY <3>1, <1>2
  <2> QED
    BY <2>2, <2>3
<1>11. BatchIsOwned' /\ BatchedHeardIsDoubtful' /\ BatchedTwiceIsDoubtful'
  BY <1>3 DEF BatchIsOwned, BatchedHeardIsDoubtful, BatchedTwiceIsDoubtful
<1> QED
  BY <1>7, <1>8, <1>9, <1>10, <1>11 DEF Delivery

---------------------------------------------------------------------------
(* The steps *)

\* A step on agents and connections does nothing to a notice.
LEMMA QuietStep ==
    ASSUME TypeOK, TypeOK', Delivery, UNCHANGED <<notice, batch, heard, again, doubtful>>,
           \A a \in Agents : held[a] \subseteq held'[a]
    PROVE  Delivery'
BY NothingSent

LEMMA AgentStep ==
    ASSUME IInv, NEW a \in Agents, NEW k \in Keys \cup {None},
           \/ \E status \in {"up", "offline"} : CreateAgent(a, k, status)
           \/ SetKey(a, k)
           \/ \E status \in {"up", "dismissed"} : SetStatus(a, status)
           \/ DeleteAgent(a) \/ ConnectCli(a) \/ Heartbeat(a) \/ GrowOld(a)
    PROVE  IInv'
<1>1. TypeOK /\ Presence /\ Delivery
  BY DEF IInv
<1>2. TypeOK'
  BY <1>1, AgentTypes, DeleteAgentTypes, ConnectTypes DEF Status
<1>3. Presence'
  <2>1. CASE \E status \in {"up", "offline"} : CreateAgent(a, k, status)
    BY <1>1, <2>1, CreatePresence DEF Status
  <2>2. CASE SetKey(a, k) \/ DeleteAgent(a) \/ ConnectCli(a) \/ GrowOld(a)
    BY <1>1, <2>2, SetKeyPresence, DeletePresence, ConnectPresence, GrowOldPresence
  <2>3. CASE Heartbeat(a) \/ \E status \in {"up", "dismissed"} : SetStatus(a, status)
    BY <1>1, <2>3, SeenPresence DEF Heartbeat, SetStatus, history
  <2> QED
    BY <2>1, <2>2, <2>3
<1>4. UNCHANGED <<notice, batch, heard, again, doubtful>>
  BY DEF CreateAgent, SetKey, SetStatus, DeleteAgent, ConnectCli, Heartbeat, GrowOld, history
<1>5. \A x \in Agents : held[x] \subseteq held'[x]
  BY <1>1 DEF CreateAgent, SetKey, SetStatus, DeleteAgent, ConnectCli, Heartbeat, GrowOld, history, TypeOK
<1>6. Delivery'
  BY <1>1, <1>2, <1>4, <1>5, QuietStep
<1> QED
  BY <1>2, <1>3, <1>6 DEF IInv

LEMMA SyncStep ==
    ASSUME IInv, NEW a \in Agents,
           \/ SyncFromConfig(a)
           \/ \E k \in Keys, alive \in BOOLEAN : SyncFromConductor(a, k, alive)
           \/ \E recent, seen \in BOOLEAN : SyncFromSession(a, recent, seen)
    PROVE  IInv'
<1>1. TypeOK /\ Presence /\ Delivery
  BY DEF IInv
<1>2. TypeOK' /\ Presence'
  <2>1. CASE SyncFromConfig(a)
    BY <1>1, <2>1, ConfigTypes, ConfigPresence
  <2>2. CASE \E k \in Keys, alive \in BOOLEAN : SyncFromConductor(a, k, alive)
    BY <1>1, <2>2, ConductorTypes, ConductorPresence
  <2>3. CASE \E recent, seen \in BOOLEAN : SyncFromSession(a, recent, seen)
    <3>1. PICK recent \in BOOLEAN, seen \in BOOLEAN : SyncFromSession(a, recent, seen)
      BY <2>3
    <3> QED
      BY <1>1, <3>1, SessionTypes, SessionPresence
  <2> QED
    BY <2>1, <2>2, <2>3
<1>3. UNCHANGED <<notice, batch, heard, again, doubtful>>
  BY DEF SyncFromConfig, SyncFromConductor, SyncFromSession, history
<1>4. \A x \in Agents : held[x] \subseteq held'[x]
  BY <1>1 DEF SyncFromConfig, SyncFromConductor, SyncFromSession, history, TypeOK
<1> QED
  BY <1>1, <1>2, <1>3, <1>4, QuietStep DEF IInv

LEMMA DisconnectStep == ASSUME IInv, NEW c \in DOMAIN conn, DisconnectCli(c) PROVE IInv'
<1>1. TypeOK /\ Presence /\ Delivery
  BY DEF IInv
<1>2. TypeOK'
  BY <1>1, DisconnectTypes DEF Presence
<1>3. UNCHANGED <<notice, batch, held, heard, again, doubtful>>
  BY DEF DisconnectCli, history
<1> QED
  BY <1>1, <1>2, <1>3, DisconnectPresence, QuietStep DEF IInv

LEMMA AskStep ==
    ASSUME IInv, NEW a \in Agents,
           \/ \E kind \in {"message", "wake"} : Ask(kind, a)
           \/ WakeSent(a)
           \/ AskFails
    PROVE  IInv'
<1>1. TypeOK /\ Presence /\ Delivery
  BY DEF IInv
<1>2. TypeOK'
  BY <1>1, AskTypes
<1>3. UNCHANGED <<conn, notice, batch, held, heard, again, doubtful>>
  BY DEF Ask, WakeSent, AskFails, tables, history
<1>4. Presence'
  <2>1. CASE agent' = agent
    BY <1>1, <1>3, <2>1, PresenceKept
  <2>2. CASE Exists(a) /\ agent' = Seen(a, "up")
    BY <1>1, <1>3, <2>2, SeenPresence
  <2> QED
    BY <2>1, <2>2 DEF Ask, WakeSent, AskFails, tables
<1> QED
  BY <1>1, <1>2, <1>3, <1>4, QuietStep DEF IInv

LEMMA HeartbeatCheckStep ==
    ASSUME IInv, NEW S \in SUBSET Stale, HeartbeatCheck(S)
    PROVE  IInv'
<1> DEFINE k == Cardinality(S)
           new == [i \in 1..k |-> To(System)]
<1>1. TypeOK /\ Presence /\ Delivery
  BY DEF IInv
<1>2. TypeOK'
  BY <1>1, HeartbeatCheckTypes
<1>3. notice' = notice \o new /\ UNCHANGED <<batch, held, heard, again, doubtful>>
  BY DEF HeartbeatCheck, history
<1>4. k \in Nat
  BY NoticeAssumption, FS_Subset, FS_CardinalityType DEF Stale
<1>5. /\ DOMAIN notice' = 1..(Len(notice) + k)
      /\ \A n \in DOMAIN notice : notice'[n] = notice[n]
      /\ \A n \in DOMAIN notice' \ DOMAIN notice : notice'[n] = To(System)
      /\ DOMAIN notice \subseteq DOMAIN notice'
  <2>1. new \in Seq(Notice) /\ Len(new) = k /\ \A i \in 1..k : new[i] = To(System)
    <3>1. To(System) \in Notice
      BY DEF To, Notice
    <3> QED
      BY <1>4, <3>1
  <2>2. notice \in Seq(Notice) /\ Len(notice) \in Nat /\ DOMAIN notice = 1..Len(notice)
    BY <1>1, Domains DEF TypeOK
  <2> HIDE DEF new, k
  <2>3. /\ notice' \in Seq(Notice) /\ Len(notice') = Len(notice) + k
        /\ \A i \in 1..(Len(notice) + k) :
             notice'[i] = IF i <= Len(notice) THEN notice[i] ELSE new[i - Len(notice)]
    BY <1>3, <2>1, <2>2, ConcatProperties
  <2>4. DOMAIN notice' = 1..(Len(notice) + k)
    BY <2>3, LenProperties
  <2>5. \A n \in DOMAIN notice' \ DOMAIN notice : n - Len(notice) \in 1..k /\ ~(n <= Len(notice))
    BY <1>4, <2>2, <2>4
  <2> QED
    BY <1>4, <2>1, <2>2, <2>3, <2>4, <2>5
<1>6. Delivery'
  <2> HIDE DEF new, k
  <2>1. \A n \in DOMAIN notice' \ DOMAIN notice : notice'[n].state = "pending"
    BY <1>5 DEF To
  <2> QED
    BY <1>1, <1>2, <1>3, <1>5, <2>1, NothingSent
<1> QED
  BY <1>1, <1>2, <1>6, HeartbeatCheckPresence DEF IInv

\* A notice is added to the table, or the state of some is changed.
LEMMA NoticeStep ==
    ASSUME IInv,
           \/ \E r \in Agents \cup {System} : Notify(r) \/ MarkDelivered(r)
           \/ \E a \in Agents : MessageSent(a)
           \/ \E n \in DOMAIN notice : DeleteNotice(n) \/ Cleanup(n)
    PROVE  IInv'
<1>1. TypeOK /\ Presence /\ Delivery
  BY DEF IInv
<1>2. TypeOK'
  BY <1>1, NotifyTypes, MarkDeliveredTypes, MessageTypes, GoneActionTypes
<1>3. UNCHANGED <<agent, conn, batch, held, heard, again, doubtful>>
  BY DEF Notify, MarkDelivered, MessageSent, DeleteNotice, Cleanup, history
<1>4. Presence'
  BY <1>1, <1>3, PresenceKept
<1>5. Delivery'
  <2>1. ASSUME NEW r \in Agents \cup {System}, notice' = Append(notice, To(r)) PROVE Delivery'
    <3>1. To(r) \in Notice /\ notice \in Seq(Notice) /\ DOMAIN notice = 1..Len(notice) /\ Len(notice) \in Nat
      BY <1>1, Domains DEF To, Notice, TypeOK
    <3>2. /\ notice' \in Seq(Notice) /\ Len(notice') = Len(notice) + 1
          /\ \A n \in 1..Len(notice) : notice'[n] = notice[n]
          /\ notice'[Len(notice) + 1] = To(r)
      BY <2>1, <3>1, AppendProperties
    <3>3. DOMAIN notice' = 1..(Len(notice) + 1)
      BY <3>2, LenProperties
    <3> QED
      BY <1>1, <1>2, <1>3, <3>1, <3>2, <3>3, NothingSent DEF To
  <2>2. ASSUME NEW r \in Agents \cup {System}, MarkDelivered(r) PROVE Delivery'
    BY <1>1, <1>2, <1>3, <2>2, Domains, NothingSent DEF MarkDelivered, Notice
  <2>3. ASSUME NEW S, notice' = Gone(S) PROVE Delivery'
    BY <1>1, <1>2, <1>3, <2>3, Domains, NothingSent DEF Gone, Notice
  <2> QED
    BY <2>1, <2>2, <2>3 DEF Notify, MessageSent, DeleteNotice, Cleanup
<1> QED
  BY <1>2, <1>4, <1>5 DEF IInv

LEMMA BatchStep ==
    ASSUME IInv,
           \/ \E b \in Callers :
                \/ \E r \in Agents \cup {None} : Deliver(b, r)
                \/ Sent(b)
                \/ \E received \in BOOLEAN : SendFails(b, received)
           \/ Restart
    PROVE  IInv'
<1>1. TypeOK /\ Presence /\ Delivery
  BY DEF IInv
<1>2. TypeOK'
  BY <1>1, DeliverTypes, SentTypes, SendFailsTypes, RestartTypes
<1>3. UNCHANGED <<agent, conn, held>>
  BY DEF Deliver, Sent, SendFails, Restart, tables
<1>4. Delivery'
  BY <1>1, DeliverDelivery, SentDelivery, SendFailsDelivery, RestartDelivery
<1> QED
  BY <1>1, <1>2, <1>3, <1>4, PresenceKept DEF IInv

LEMMA StutterStep == ASSUME IInv, UNCHANGED vars PROVE IInv'
BY DEF IInv, vars, tables, history, TypeOK, Presence, Delivery, Exists, Pending,
       OneConnectionPerAgent, ConnectedIsUp, HasAgent, KeyIsHeld,
       DeliveredReachedItsAgent, HeardAgainIsDoubtful, UnbornIsUnheard, BatchIsOwned,
       PendingHeardIsDoubtful, BatchedHeardIsDoubtful, BatchedTwiceIsDoubtful

LEMMA Inductive == IInv /\ [Next]_vars => IInv'
<1> SUFFICES ASSUME IInv, [Next]_vars PROVE IInv'
  OBVIOUS
<1>1. CASE UNCHANGED vars
  BY <1>1, StutterStep
<1>2. ASSUME NEW a \in Agents, NEW k \in Keys \cup {None},
             \/ \E status \in {"up", "offline"} : CreateAgent(a, k, status)
             \/ SetKey(a, k)
      PROVE  IInv'
  BY <1>2, AgentStep
<1>3. ASSUME NEW a \in Agents,
             \/ \E status \in {"up", "dismissed"} : SetStatus(a, status)
             \/ DeleteAgent(a) \/ ConnectCli(a) \/ Heartbeat(a) \/ GrowOld(a)
      PROVE  IInv'
  <2>1. None \in Keys \cup {None}
    OBVIOUS
  <2> QED
    BY <1>3, <2>1, AgentStep
<1>10. ASSUME NEW a \in Agents,
              \/ SyncFromConfig(a)
              \/ \E k \in Keys, alive \in BOOLEAN : SyncFromConductor(a, k, alive)
              \/ \E recent, seen \in BOOLEAN : SyncFromSession(a, recent, seen)
       PROVE  IInv'
  BY <1>10, SyncStep
<1>4. ASSUME NEW a \in Agents,
             \/ \E kind \in {"message", "wake"} : Ask(kind, a)
             \/ WakeSent(a)
      PROVE  IInv'
  BY <1>4, AskStep
<1>5. CASE AskFails
  <2>1. PICK q \in asks : TRUE
    BY <1>5 DEF AskFails
  <2>2. \E a \in Agents : TRUE
    BY <2>1 DEF IInv, TypeOK
  <2> QED
    BY <1>5, <2>2, AskStep
<1>6. ASSUME NEW c \in DOMAIN conn, DisconnectCli(c) PROVE IInv'
  BY <1>6, DisconnectStep
<1>7. ASSUME NEW S \in SUBSET Stale, HeartbeatCheck(S) PROVE IInv'
  BY <1>7, HeartbeatCheckStep
<1>8. CASE \/ \E r \in Agents \cup {System} : Notify(r) \/ MarkDelivered(r)
           \/ \E a \in Agents : MessageSent(a)
           \/ \E n \in DOMAIN notice : DeleteNotice(n) \/ Cleanup(n)
  BY <1>8, NoticeStep
<1>9. CASE \/ \E b \in Callers :
                \/ \E r \in Agents \cup {None} : Deliver(b, r)
                \/ Sent(b)
                \/ \E received \in BOOLEAN : SendFails(b, received)
           \/ Restart
  BY <1>9, BatchStep
<1> QED
  BY <1>1, <1>2, <1>3, <1>4, <1>5, <1>6, <1>7, <1>8, <1>9, <1>10 DEF Next

LEMMA Initial == Init => IInv
BY InitTypes, InitPresence, InitDelivery DEF IInv

---------------------------------------------------------------------------
(* The theorems *)

\* What the routes and the scheduler keep of agents, connections,
\* notices and batches in every interleaving, restarts included.
THEOREM NoticeInvariant == Spec => []IInv
BY Initial, Inductive, PTL DEF Spec

\* The tables, batches and histories keep their types; no batch is longer than
\* its LIMIT.
THEOREM NoticeTypeCorrect == Spec => []TypeOK
<1>1. IInv => TypeOK
  BY DEF IInv
<1> QED
  BY <1>1, NoticeInvariant, PTL

\* deliver/route.ts marks a notice only after a session received it, and sends
\* it to no session but one that was its agent's.
THEOREM DeliveredReached == Spec => []DeliveredReachedItsAgent
<1>1. IInv => DeliveredReachedItsAgent
  BY DEF IInv, Delivery
<1> QED
  BY <1>1, NoticeInvariant, PTL

\* deliver/route.ts sends a notice again only after a lost answer, a restart
\* during a send or a batch that overlapped another.
THEOREM AgainMeansDoubtful == Spec => []HeardAgainIsDoubtful
<1>1. IInv => HeardAgainIsDoubtful
  BY DEF IInv, Delivery
<1> QED
  BY <1>1, NoticeInvariant, PTL

\* connect/route.ts keeps at most one connection of an agent connected.
THEOREM OneConnection == Spec => []OneConnectionPerAgent
<1>1. IInv => OneConnectionPerAgent
  BY DEF IInv, Presence
<1> QED
  BY <1>1, NoticeInvariant, PTL

\* Neither the close of a replaced connection (connect/route.ts) nor the
\* heartbeat check, whatever its timeout, takes an agent off line that is
\* connected and whose last_seen is within the timeout.
THEOREM ConnectedStaysUp == Spec => []ConnectedIsUp
<1>1. IInv => ConnectedIsUp
  BY DEF IInv, Presence
<1> QED
  BY <1>1, NoticeInvariant, PTL
=============================================================================
