--------------------------- MODULE NoticeDelivery ---------------------------
(***************************************************************************)
(* Agents and the notices they are sent: the routes under api/agents,      *)
(* api/connect and api/notifications, the heartbeat check and the cleanup  *)
(* of src/lib/scheduler.ts, the loop of scripts/notification-daemon.sh, and *)
(* what the synchronisations with openclaw.json, the Conductor and the     *)
(* sessions on disk make of the agents.                                    *)
(*                                                                         *)
(* POST /api/notifications/deliver selects a batch and then awaits one     *)
(* command per notice, so that anything may happen between the selection   *)
(* and a send: another batch, a new session key, a deletion, a restart.    *)
(* All other handlers are synchronous, but for a direct message and a      *)
(* wake-up, which await the same command.                                  *)
(***************************************************************************)
EXTENDS Naturals, FiniteSets, Sequences

CONSTANTS
    Agents,       \* names of agents
    System,       \* a recipient that is no agent: "system", "admin"
    Keys,         \* session keys
    None,         \* NULL
    Callers,      \* processes that post to /api/notifications/deliver
    Daemon,       \* the caller that is notification-daemon.sh
    Poller,       \* a caller that polls as the daemon does, with a credential
    Limit,        \* LIMIT of a batch
    MaxNotices,   \* bound: notices in a behaviour
    MaxConns,     \* bound: direct connections in a behaviour
    MaxRequests   \* bound: requests and synchronisations in a behaviour

ASSUME NoticeAssumption ==
    /\ IsFiniteSet(Agents)
    /\ System \notin Agents
    /\ None \notin Keys
    /\ Daemon \in Callers
    /\ Poller \in Callers \ {Daemon}
    /\ Limit \in Nat \ {0}
    /\ MaxNotices \in Nat
    /\ MaxConns \in Nat \ {0}
    /\ MaxRequests \in Nat

VARIABLES
    agent,      \* the agents table
    conn,       \* the direct_connections table
    notice,     \* the notifications table in the order of created_at
    batch,      \* what is left of the batch of a caller; its head is being sent
    asks,       \* direct messages and wake-ups that await their command
    requests,   \* requests so far
    held,       \* session keys an agent had so far (history)
    heard,      \* sessions that received a notice (history)
    again,      \* notices some session received twice (history)
    doubtful    \* notices with a lost answer, a crash or two batches (history)

tables == <<agent, conn, notice>>
history == <<held, heard, again, doubtful>>
vars == <<tables, batch, asks, requests, history>>

Ids == 1..MaxNotices

\* "up" is every status but "offline", "dismissed" is "offline" as an operator,
\* the Conductor or the age of the agent's session set it.  seen: last_seen is
\* within the timeout of the heartbeat check, and has been since it was written;
\* NULL is not.  The timeout is a setting of any length.
Status == {"up", "offline", "dismissed"}
Row == [key : Keys \cup {None}, status : Status, seen : BOOLEAN]
NoRow == [none |-> TRUE]

Conn == [agent : Agents, status : {"connected", "disconnected", "gone"}]

\* acked: delivered_at set by the agent itself; gone: the row is deleted.
Notice == [to : Agents \cup {System}, state : {"pending", "delivered", "acked", "gone"}]

Entry == [id : Ids, key : Keys]

TypeOK ==
    /\ agent \in [Agents -> Row \cup {NoRow}]
    /\ conn \in Seq(Conn) /\ Len(conn) <= MaxConns
    /\ notice \in Seq(Notice) /\ Len(notice) <= MaxNotices
    /\ batch \in [Callers -> Seq(Entry)]
    /\ \A b \in Callers : Len(batch[b]) <= Limit
    /\ asks \subseteq {"message", "wake"} \X Agents
    /\ requests \in 0..MaxRequests
    /\ held \in [Agents -> SUBSET Keys]
    /\ heard \in [Ids -> SUBSET Keys]
    /\ again \subseteq Ids
    /\ doubtful \subseteq Ids

Exists(a) == agent[a] # NoRow
Offline(k) == [key |-> k, status |-> "offline", seen |-> FALSE]

\* The database as an earlier process left it: agents that are silent and
\* at most one connection that nobody closed.
Init ==
    /\ agent \in [Agents -> {NoRow} \cup {Offline(k) : k \in Keys}]
    /\ \A a, b \in Agents : a # b /\ Exists(a) /\ Exists(b) => agent[a].key # agent[b].key
    /\ \/ conn = <<>>
       \/ \E a \in Agents : Exists(a) /\ conn = <<[agent |-> a, status |-> "connected"]>>
    /\ notice = <<>>
    /\ batch = [b \in Callers |-> <<>>]
    /\ asks = {}
    /\ requests = 0
    /\ held = [a \in Agents |-> IF Exists(a) THEN {agent[a].key} ELSE {}]
    /\ heard = [n \in Ids |-> {}]
    /\ again = {}
    /\ doubtful = {}

Request ==
    /\ requests < MaxRequests
    /\ requests' = requests + 1

HasSession(r) == r \in Agents /\ agent[r] # NoRow /\ agent[r].key # None
KeyFree(k) == \A a \in Agents : Exists(a) => agent[a].key # k   \* UNIQUE

---------------------------------------------------------------------------
(* Agents *)

\* POST /api/agents
CreateAgent(a, k, status) ==
    /\ Request
    /\ ~Exists(a)
    /\ k # None => KeyFree(k)
    /\ agent' = [agent EXCEPT ![a] = [key |-> k, status |-> status, seen |-> FALSE]]
    /\ held' = [held EXCEPT ![a] = @ \cup ({k} \ {None})]
    /\ UNCHANGED <<conn, notice, batch, asks, heard, again, doubtful>>

\* PUT /api/agents with a session_key
SetKey(a, k) ==
    /\ Request
    /\ Exists(a)
    /\ k # None => KeyFree(k)
    /\ agent' = [agent EXCEPT ![a].key = k]
    /\ held' = [held EXCEPT ![a] = @ \cup ({k} \ {None})]
    /\ UNCHANGED <<conn, notice, batch, asks, heard, again, doubtful>>

Seen(a, status) == [agent EXCEPT ![a].status = status, ![a].seen = TRUE]

\* PUT /api/agents with a status
SetStatus(a, status) ==
    /\ Request
    /\ Exists(a)
    /\ agent' = Seen(a, status)
    /\ UNCHANGED <<conn, notice, batch, asks, history>>

\* DELETE /api/agents/[id]; the connections go by ON DELETE CASCADE, notices stay.
DeleteAgent(a) ==
    /\ Request
    /\ Exists(a)
    /\ agent' = [agent EXCEPT ![a] = NoRow]
    /\ conn' = [c \in DOMAIN conn |->
                  IF conn[c].agent = a THEN [conn[c] EXCEPT !.status = "gone"] ELSE conn[c]]
    /\ UNCHANGED <<notice, batch, asks, history>>

NoOthers(c) == {}  \* mutant: the other connections are not looked for

Others(c) ==
    {d \in DOMAIN conn : d # c /\ conn[d].agent = conn[c].agent /\ conn[d].status = "connected"}

Kept(a) == conn  \* mutant: earlier connections stay

Replaced(a) ==
    [c \in DOMAIN conn |->
       IF conn[c].agent = a /\ conn[c].status = "connected"
       THEN [conn[c] EXCEPT !.status = "disconnected"] ELSE conn[c]]

\* POST /api/connect: last_seen is left as it was.
ConnectCli(a) ==
    /\ Request
    /\ Len(conn) < MaxConns
    /\ agent' = [agent EXCEPT ![a] =
                   IF Exists(a) THEN [@ EXCEPT !.status = "up"]
                   ELSE [key |-> None, status |-> "up", seen |-> FALSE]]
    /\ conn' = Append(Replaced(a), [agent |-> a, status |-> "connected"])
    /\ UNCHANGED <<notice, batch, asks, history>>

\* DELETE /api/connect, of a connection that was replaced too
DisconnectCli(c) ==
    /\ Request
    /\ conn[c].status # "gone"
    /\ conn' = [conn EXCEPT ![c].status = "disconnected"]
    /\ agent' = IF Others(c) # {} THEN agent
                ELSE [agent EXCEPT ![conn[c].agent].status = "offline"]
    /\ UNCHANGED <<notice, batch, asks, history>>

\* GET and POST /api/agents/[id]/heartbeat
Heartbeat(a) ==
    /\ Request
    /\ Exists(a)
    /\ agent' = Seen(a, "up")
    /\ UNCHANGED <<conn, notice, batch, asks, history>>

\* An entry of openclaw.json (agent-sync.ts) makes the agent it does not find;
\* of the entries that one transaction goes through, one is a step here.
SyncFromConfig(a) ==
    /\ Request
    /\ ~Exists(a)
    /\ agent' = [agent EXCEPT ![a] = Offline(None)]
    /\ UNCHANGED <<conn, notice, batch, asks, history>>

\* A task of the Conductor that has a session of its own (conductor-sync.ts):
\* an agent of the session's name is made, or said to be busy or off line.  The
\* loop over the tasks is no transaction, so that each is a step.
SyncFromConductor(a, k, alive) ==
    /\ Request
    /\ LET status == IF alive THEN "up" ELSE "dismissed" IN
         \/ Exists(a) /\ agent' = Seen(a, status) /\ UNCHANGED held
         \/ /\ ~Exists(a) /\ KeyFree(k)
            /\ agent' = [agent EXCEPT ![a] = [key |-> k, status |-> status, seen |-> TRUE]]
            /\ held' = [held EXCEPT ![a] = @ \cup {k}]
    /\ UNCHANGED <<conn, notice, batch, asks, heard, again, doubtful>>

\* GET /api/status takes status and last_seen of an agent from the age of its
\* session on disk, whatever was heard of the agent since: after an hour it is
\* off line, which may be past the timeout of the heartbeat check or not.
SyncFromSession(a, recent, seen) ==
    /\ Request
    /\ Exists(a)
    /\ agent' = [agent EXCEPT ![a].status = IF recent THEN "up" ELSE "dismissed", ![a].seen = seen]
    /\ UNCHANGED <<conn, notice, batch, asks, history>>

\* The timeout of an agent passes.
GrowOld(a) ==
    /\ Exists(a)
    /\ agent[a].seen
    /\ agent' = [agent EXCEPT ![a].seen = FALSE]
    /\ UNCHANGED <<conn, notice, batch, asks, requests, history>>

Stale == {a \in Agents : Exists(a) /\ agent[a].status = "up" /\ ~agent[a].seen}
To(r) == [to |-> r, state |-> "pending"]

\* The heartbeat check of the scheduler, one transaction, on all that are stale,
\* but for those that a timeout raised meanwhile spares.
HeartbeatCheck(S) ==
    /\ S # {}
    /\ Len(notice) + Cardinality(S) <= MaxNotices
    /\ agent' = [a \in Agents |->
                   IF a \in S THEN [agent[a] EXCEPT !.status = "offline"] ELSE agent[a]]
    /\ notice' = notice \o [i \in 1..Cardinality(S) |-> To(System)]
    /\ UNCHANGED <<conn, batch, asks, requests, history>>

---------------------------------------------------------------------------
(* Notices *)

\* createNotification by a task, a comment, a chat message, an alert or a
\* visitor of a data room
Notify(r) ==
    /\ Request
    /\ Len(notice) < MaxNotices
    /\ notice' = Append(notice, To(r))
    /\ UNCHANGED <<agent, conn, batch, asks, history>>

\* POST /api/agents/message and POST /api/agents/[id]/wake
Ask(kind, a) ==
    /\ Request
    /\ HasSession(a)
    /\ asks' = asks \cup {<<kind, a>>}
    /\ UNCHANGED <<tables, batch, history>>

\* The message went out: the agent is notified of it besides.
MessageSent(a) ==
    /\ <<"message", a>> \in asks
    /\ Len(notice) < MaxNotices
    /\ asks' = asks \ {<<"message", a>>}
    /\ notice' = Append(notice, To(a))
    /\ UNCHANGED <<agent, conn, batch, requests, history>>

\* The agent may be deleted by now, or be another one of the same name.
WakeSent(a) ==
    /\ <<"wake", a>> \in asks
    /\ asks' = asks \ {<<"wake", a>>}
    /\ agent' = IF Exists(a) THEN Seen(a, "up") ELSE agent
    /\ UNCHANGED <<conn, notice, batch, requests, history>>

AskFails ==
    /\ \E q \in asks : asks' = asks \ {q}
    /\ UNCHANGED <<tables, batch, requests, history>>

\* POST /api/notifications, action mark-delivered
MarkDelivered(r) ==
    /\ Request
    /\ notice' = [n \in DOMAIN notice |->
                    IF notice[n] = To(r) THEN [notice[n] EXCEPT !.state = "acked"] ELSE notice[n]]
    /\ UNCHANGED <<agent, conn, batch, asks, history>>

Gone(S) ==
    [n \in DOMAIN notice |-> IF n \in S THEN [notice[n] EXCEPT !.state = "gone"] ELSE notice[n]]

\* DELETE /api/notifications
DeleteNotice(n) ==
    /\ Request
    /\ notice' = Gone({n})
    /\ UNCHANGED <<agent, conn, batch, asks, history>>

\* The cleanup of the scheduler deletes what was created before a date.
Cleanup(n) ==
    /\ Request
    /\ notice' = Gone(1..n)
    /\ UNCHANGED <<agent, conn, batch, asks, history>>

---------------------------------------------------------------------------
(* Delivery *)

PendingOrAcked(n) == notice[n].state # "gone"  \* mutant: delivered_at is not looked at
Pending(n) == notice[n].state = "pending"

\* The undelivered notices, filtered by recipient or not
Undelivered(r) == {n \in DOMAIN notice : Pending(n) /\ r \in {None, notice[n].to}}

SelectedAll(r) == {Undelivered(r)}  \* mutant: no LIMIT

SelectedNewest(r) ==  \* mutant: the newest come first
    {S \in SUBSET Undelivered(r) :
       /\ Cardinality(S) <= Limit
       /\ S = Undelivered(r) \/ Cardinality(S) = Limit
       /\ \A n \in S, m \in Undelivered(r) \ S : m < n}

\* The Limit oldest of them, or all
Selected(r) ==
    {S \in SUBSET Undelivered(r) :
       /\ Cardinality(S) <= Limit
       /\ S = Undelivered(r) \/ Cardinality(S) = Limit
       /\ \A n \in S, m \in Undelivered(r) \ S : n < m}

\* What will be sent, the oldest first
Queues(S) ==
    {q \in [1..Cardinality(S) -> {[id |-> n, key |-> agent[notice[n].to].key] : n \in S}] :
       \A i, j \in DOMAIN q : i < j => q[i].id < q[j].id}

Batched(n) == \E c \in Callers : \E i \in DOMAIN batch[c] : batch[c][i].id = n

\* Who passes requireRole('operator'): the daemon posts without a cookie and
\* without a key, and is refused.
Authorised == Callers \ {Daemon}

\* POST /api/notifications/deliver up to the first command: a notice whose
\* recipient has no session is passed over.  A batch without anything to send,
\* and a dry run, change nothing.
Deliver(b, r) ==
    /\ b \in Authorised
    /\ batch[b] = <<>>
    /\ \E S \in Selected(r) :
         LET T == {n \in S : HasSession(notice[n].to)} IN
         /\ \E q \in Queues(T) : batch' = [batch EXCEPT ![b] = q]
         /\ doubtful' = doubtful \cup {n \in T : Batched(n)}
    /\ UNCHANGED <<tables, asks, requests, held, heard, again>>

Received(E) ==
    /\ heard' = [n \in Ids |-> heard[n] \cup {e.key : e \in {x \in E : x.id = n}}]
    /\ again' = again \cup {e.id : e \in {x \in E : heard[x.id] # {}}}

\* The command succeeds and delivered_at is set, whatever it was; a row that
\* was deleted stays so.
Sent(b) ==
    /\ batch[b] # <<>>
    /\ LET e == Head(batch[b]) IN
         /\ notice' = IF notice[e.id].state = "gone" THEN notice
                      ELSE [notice EXCEPT ![e.id].state = "delivered"]
         /\ Received({e})
    /\ batch' = [batch EXCEPT ![b] = Tail(@)]
    /\ UNCHANGED <<agent, conn, asks, requests, held, doubtful>>

SendFailsMarks(b, received) ==  \* mutant: the row is marked whatever came out
    /\ batch[b] # <<>>
    /\ LET e == Head(batch[b]) IN
         /\ notice' = IF notice[e.id].state = "gone" THEN notice
                      ELSE [notice EXCEPT ![e.id].state = "delivered"]
         /\ IF received
            THEN Received({e}) /\ doubtful' = doubtful \cup {e.id}
            ELSE UNCHANGED <<heard, again, doubtful>>
    /\ batch' = [batch EXCEPT ![b] = Tail(@)]
    /\ UNCHANGED <<agent, conn, asks, requests, held>>

\* The command fails or is killed after ten seconds; the session may have
\* received the notice all the same.  The loop goes on.
SendFails(b, received) ==
    /\ batch[b] # <<>>
    /\ IF received
       THEN /\ Received({Head(batch[b])})
            /\ doubtful' = doubtful \cup {Head(batch[b]).id}
       ELSE UNCHANGED <<heard, again, doubtful>>
    /\ batch' = [batch EXCEPT ![b] = Tail(@)]
    /\ UNCHANGED <<tables, asks, requests, held>>

\* The server stops: batches and calls are forgotten, the commands of some
\* batches had reached their session.
Restart ==
    /\ \E R \in SUBSET {b \in Callers : batch[b] # <<>>} :
         LET E == {Head(batch[b]) : b \in R}
         IN  Received(E) /\ doubtful' = doubtful \cup {e.id : e \in E}
    /\ batch' = [b \in Callers |-> <<>>]
    /\ asks' = {}
    /\ UNCHANGED <<tables, requests, held>>

---------------------------------------------------------------------------
Next ==
    \/ \E a \in Agents :
         \/ \E k \in Keys \cup {None} :
              \/ \E status \in {"up", "offline"} : CreateAgent(a, k, status)
              \/ SetKey(a, k)
         \/ \E status \in {"up", "dismissed"} : SetStatus(a, status)
         \/ DeleteAgent(a) \/ ConnectCli(a) \/ Heartbeat(a) \/ GrowOld(a)
         \/ SyncFromConfig(a)
         \/ \E k \in Keys, alive \in BOOLEAN : SyncFromConductor(a, k, alive)
         \/ \E recent, seen \in BOOLEAN : SyncFromSession(a, recent, seen)
         \/ \E kind \in {"message", "wake"} : Ask(kind, a)
         \/ MessageSent(a) \/ WakeSent(a)
    \/ \E c \in DOMAIN conn : DisconnectCli(c)
    \/ \E S \in SUBSET Stale : HeartbeatCheck(S)
    \/ AskFails
    \/ \E r \in Agents \cup {System} : Notify(r) \/ MarkDelivered(r)
    \/ \E n \in DOMAIN notice : DeleteNotice(n) \/ Cleanup(n)
    \/ \E b \in Callers :
         \/ \E r \in Agents \cup {None} : Deliver(b, r)
         \/ Sent(b)
         \/ \E received \in BOOLEAN : SendFails(b, received)
    \/ Restart

Spec == Init /\ [][Next]_vars

\* A command ends within its timeout, and a notice that is sent again and again
\* arrives some time.  Nothing makes a caller post: that is a hypothesis of the
\* property.
FairSpec ==
    /\ Spec
    /\ WF_vars(Sent(Poller) \/ \E received \in BOOLEAN : SendFails(Poller, received))
    /\ \A n \in Ids : SF_vars(batch[Poller] # <<>> /\ Head(batch[Poller]).id = n /\ Sent(Poller))

---------------------------------------------------------------------------
(* Properties *)

\* A notice that is marked by a batch was received by a session, and no session
\* receives a notice for an agent whose session it never was: session keys that
\* change and agents that are deleted during a batch included.
DeliveredReachedItsAgent ==
    \A n \in DOMAIN notice :
        /\ notice[n].state = "delivered" => heard[n] # {}
        /\ notice[n].to = System => heard[n] = {}
        /\ notice[n].to \in Agents => heard[n] \subseteq held[notice[n].to]

\* A notice is received twice only if the answer of a send was lost, the server
\* stopped during a send, or two batches selected it at the same time; a mark
\* of the agent itself or a restart alone never makes it come again.
HeardAgainIsDoubtful == again \subseteq doubtful

\* docs/cli-integration.md: "Each agent can only have one active connection at
\* a time."  However connections are made, dropped and made again.
OneConnectionPerAgent ==
    \A c, d \in DOMAIN conn :
        conn[c].status = "connected" /\ conn[d].status = "connected"
            /\ conn[c].agent = conn[d].agent => c = d

\* An agent with a live connection whose last_seen is within the timeout, and
\* has been since it was written, is not offline, unless an operator, the
\* Conductor or the age of its session on disk says so: neither a replaced
\* connection that is closed late nor the heartbeat check takes it off line.
ConnectedIsUp ==
    \A a \in Agents :
        /\ \E c \in DOMAIN conn : conn[c].agent = a /\ conn[c].status = "connected"
        /\ agent[a].seen
        => agent[a].status # "offline"

\* As many older notices as a batch holds have a recipient without a session.
Clogged(n) ==
    Cardinality({m \in 1..n - 1 : Pending(m) /\ ~HasSession(notice[m].to)}) >= Limit

Waiting(n) == n <= Len(notice) /\ Pending(n) /\ HasSession(notice[n].to)

\* If a caller with a credential keeps posting, a notice whose agent has a
\* session is delivered at last, whatever fails in between, unless notices
\* without a session fill the batches ahead of it.  The loop of
\* notification-daemon.sh is no such caller.
PendingIsDelivered ==
    WF_vars(Deliver(Poller, None)) => \A n \in Ids : Waiting(n) ~> ~Waiting(n) \/ Clogged(n)
=============================================================================
