----------------------------- MODULE GatewaySocket -----------------------------
(***************************************************************************)
(* The browser's connection to an OpenClaw gateway (src/lib/websocket.ts). *)
(* useWebSocket is a React hook: every component that calls it - the page, *)
(* the gateway panel - has refs, timers and sockets of its own, and all of *)
(* them write one record of the store, `connection', which the header      *)
(* shows.  Refs outlive their component in the closures of its sockets,    *)
(* timers and requests.  An action is one callback of the browser.         *)
(***************************************************************************)
EXTENDS Integers, FiniteSets

CONSTANTS
    Hooks,          \* instances of the hook: a page, the page after it, a panel
    Sockets,        \* WebSocket objects that may exist at a time
    NoSocket,       \* wsRef.current = null
    MaxAttempts,    \* maxReconnectAttempts (10 in the code)
    MaxMissed,      \* MAX_MISSED_PONGS
    PingCap,        \* bound: unanswered pings counted per socket
    MaxTimers       \* bound: pending but forgotten timers counted per hook

ASSUME GatewayAssumption ==
    /\ NoSocket \notin Sockets
    /\ MaxAttempts \in Nat \ {0}
    /\ MaxMissed \in Nat \ {0}
    /\ PingCap \in Nat /\ PingCap >= MaxMissed
    /\ MaxTimers \in Nat

VARIABLES
    hook,    \* the refs of each instance
    sock,    \* the sockets, as the browser sees them
    shown    \* the connection record of the store

vars == <<hook, sock, shown>>

\* phase: how far the connect handshake of the gateway protocol has come.
\* pings: requests on their way; dead: the link is lost, nothing arrives.
Sock == [st : {"connecting", "open", "closing"}, of : Hooks,
         phase : {"silent", "asked", "accepted", "refused"},
         pings : 0..PingCap, dead : BOOLEAN]
NoSock == [st |-> "none"]

\* cur is wsRef (NoSocket as well for a socket that is closed), url whether
\* reconnectUrl is set, ready handshakeCompleteRef, beating pingIntervalRef, sent the
\* size of pingSentTimestamps, canPing gatewaySupportsPingRef, timer the timer
\* reconnectTimeoutRef remembers and strays those it no longer does.
Hook == [mounted : BOOLEAN, fetching : BOOLEAN, url : BOOLEAN,
         cur : Sockets \cup {NoSocket}, ready : BOOLEAN, attempts : 0..MaxAttempts,
         manual : BOOLEAN, fatal : BOOLEAN, beating : BOOLEAN, canPing : BOOLEAN,
         missed : 0..MaxMissed, sent : 0..PingCap,
         timer : BOOLEAN, strays : 0..MaxTimers]

FreshHook(here) == [mounted |-> here, fetching |-> FALSE, url |-> FALSE,
              cur |-> NoSocket, ready |-> FALSE, attempts |-> 0,
              manual |-> FALSE, fatal |-> FALSE, beating |-> FALSE, canPing |-> TRUE,
              missed |-> 0, sent |-> 0, timer |-> FALSE, strays |-> 0]

\* connected is isConnected, retrying is reconnectAttempts > 0.
TypeOK ==
    /\ hook \in [Hooks -> Hook]
    /\ sock \in [Sockets -> Sock \cup {NoSock}]
    /\ shown \in [connected : BOOLEAN, retrying : BOOLEAN]

Init ==
    /\ hook = [h \in Hooks |-> FreshHook(FALSE)]
    /\ sock = [s \in Sockets |-> NoSock]
    /\ shown = [connected |-> FALSE, retrying |-> FALSE]

Live(s) == sock[s].st \in {"connecting", "open"}
HasLive(h) == hook[h].cur # NoSocket /\ Live(hook[h].cur)

\* Socket s once it is closing: what is on its way no longer matters.
Closing(s) ==
    [sock EXCEPT ![s] = [@ EXCEPT !.st = "closing", !.pings = 0, !.dead = FALSE]]

\* The refs after stopHeartbeat.
Stopped(r) == [r EXCEPT !.beating = FALSE, !.missed = 0, !.sent = 0]

---------------------------------------------------------------------------
(* connect *)

\* (mutant) An older socket is not looked at.
ConnectUnguarded(h, r) ==
    \E s \in Sockets :
        /\ sock[s] = NoSock
        /\ sock' = [sock EXCEPT ![s] =
                      [st |-> "connecting", of |-> h, phase |-> "silent",
                       pings |-> 0, dead |-> FALSE]]
        /\ hook' = [hook EXCEPT ![h] = [r EXCEPT !.cur = s, !.url = TRUE, !.ready = FALSE,
                                          !.manual = FALSE, !.fatal = FALSE]]

\* The refs of h are r when connect is called; a live socket is kept.
Connect(h, r) ==
    IF HasLive(h)
    THEN hook' = [hook EXCEPT ![h] = r] /\ UNCHANGED sock
    ELSE \E s \in Sockets :
        /\ sock[s] = NoSock
        /\ sock' = [sock EXCEPT ![s] =
                      [st |-> "connecting", of |-> h, phase |-> "silent",
                       pings |-> 0, dead |-> FALSE]]
        /\ hook' = [hook EXCEPT ![h] = [r EXCEPT !.cur = s, !.url = TRUE, !.ready = FALSE,
                                          !.manual = FALSE, !.fatal = FALSE]]

\* A component mounts; nothing is left of an earlier use of the instance.
Mount(h) ==
    /\ ~hook[h].mounted /\ ~hook[h].fetching
    /\ ~hook[h].timer /\ hook[h].strays = 0
    /\ \A s \in Sockets : sock[s] # NoSock => sock[s].of # h
    /\ hook' = [hook EXCEPT ![h] = FreshHook(TRUE)]
    /\ UNCHANGED <<sock, shown>>

\* The page asks for the capabilities, the panel for the URL of a gateway.
Request(h) ==
    /\ hook[h].mounted /\ ~hook[h].fetching
    /\ hook' = [hook EXCEPT ![h].fetching = TRUE]
    /\ UNCHANGED <<sock, shown>>

\* The answer calls connect, whether or not the component is still there.
RequestDone(h) ==
    /\ hook[h].fetching
    /\ Connect(h, [hook[h] EXCEPT !.fetching = FALSE])
    /\ UNCHANGED shown

\* The panel gives up when its request fails.
RequestFails(h) ==
    /\ hook[h].fetching
    /\ hook' = [hook EXCEPT ![h].fetching = FALSE]
    /\ UNCHANGED <<sock, shown>>

RetryTimer(h) ==
    /\ hook[h].timer
    /\ Connect(h, [hook[h] EXCEPT !.timer = FALSE])
    /\ UNCHANGED shown

\* A timer whose handle was overwritten fires like any other.
StrayTimer(h) ==
    /\ hook[h].strays > 0
    /\ Connect(h, [hook[h] EXCEPT !.strays = @ - 1])
    /\ UNCHANGED shown

---------------------------------------------------------------------------
(* disconnect *)

\* Effect of disconnect() on the refs r.
Disconnected(r) ==
    [Stopped(r) EXCEPT !.manual = TRUE, !.attempts = 0, !.timer = FALSE,
                       !.cur = NoSocket, !.ready = FALSE]

CloseCurrent(h) == sock' = IF HasLive(h) THEN Closing(hook[h].cur) ELSE sock

Unmount(h) ==
    /\ hook[h].mounted
    /\ CloseCurrent(h)
    /\ hook' = [hook EXCEPT ![h] = [Disconnected(hook[h]) EXCEPT !.mounted = FALSE]]
    /\ shown' = [connected |-> FALSE, retrying |-> FALSE]

\* reconnect() of the header: its instance of the hook has never had a URL, so
\* disconnect() on its empty refs is all that happens.
HeaderReconnect ==
    /\ ~shown.connected
    /\ shown' = [connected |-> FALSE, retrying |-> FALSE]
    /\ UNCHANGED <<hook, sock>>

---------------------------------------------------------------------------
(* Callbacks of a socket *)

\* Messages reach a socket while it is open and its link is alive.
Hears(s) == sock[s].st = "open" /\ ~sock[s].dead

Opened(s) ==
    /\ sock[s].st = "connecting"
    /\ sock' = [sock EXCEPT ![s].st = "open"]
    /\ shown' = [shown EXCEPT !.retrying = FALSE]
    /\ UNCHANGED hook

\* connect.challenge arrives and is answered.  The signature is computed
\* asynchronously, from values read before; if the socket is closed meanwhile,
\* send() drops the request.
Challenge(s) ==
    /\ Hears(s) /\ sock[s].phase = "silent"
    /\ sock' = [sock EXCEPT ![s].phase = "asked"]
    /\ UNCHANGED <<hook, shown>>

\* (mutant) The heartbeat is forgotten.
HandshakeCompleteNoBeat(h, r) ==
    /\ hook' = [hook EXCEPT ![h] = [r EXCEPT !.ready = TRUE, !.attempts = 0]]
    /\ shown' = [connected |-> TRUE, retrying |-> FALSE]

\* A positive answer while the handshake is not complete.
HandshakeComplete(h, r) ==
    /\ hook' = [hook EXCEPT ![h] = [r EXCEPT !.ready = TRUE, !.attempts = 0,
                                             !.beating = TRUE]]
    /\ shown' = [connected |-> TRUE, retrying |-> FALSE]

Accepted(s) ==
    LET h == sock[s].of IN
    /\ Hears(s) /\ sock[s].phase = "asked"
    /\ sock' = [sock EXCEPT ![s].phase = "accepted"]
    /\ IF hook[h].ready THEN UNCHANGED <<hook, shown>> ELSE HandshakeComplete(h, hook[h])

\* An error that is worth another try is only logged.
Refused(s) ==
    /\ Hears(s) /\ sock[s].phase = "asked"
    /\ sock' = [sock EXCEPT ![s].phase = "refused"]
    /\ UNCHANGED <<hook, shown>>

\* An error of configuration or authentication: no more retries.
RefusedForGood(s) ==
    LET h == sock[s].of IN
    /\ Hears(s) /\ sock[s].phase = "asked"
    /\ sock' = Closing(s)
    /\ hook' = [hook EXCEPT ![h] = [Stopped(hook[h]) EXCEPT !.fatal = TRUE]]
    /\ UNCHANGED shown

\* handlePong: the oldest ping on its way is still in the table if and only if
\* the table was not cleared since it was sent.
Pong(h, s) ==
    IF hook[h].sent > 0 /\ sock[s].pings <= hook[h].sent
    THEN [hook[h] EXCEPT !.sent = @ - 1, !.missed = 0]
    ELSE hook[h]

\* ok = TRUE: a result, which also counts as the answer to a connect request.
PingAnswered(s, ok) ==
    LET h == sock[s].of IN
    /\ Hears(s) /\ sock[s].pings > 0
    /\ sock' = [sock EXCEPT ![s].pings = @ - 1]
    /\ IF ok /\ ~hook[h].ready
       THEN HandshakeComplete(h, hook[h])
       ELSE hook' = [hook EXCEPT ![h] = Pong(h, s)] /\ UNCHANGED shown

\* "unknown method: ping": heartbeat turns passive for the life of the hook.
PingUnknown(s) ==
    LET h == sock[s].of IN
    /\ Hears(s) /\ sock[s].pings > 0
    /\ sock' = [sock EXCEPT ![s].pings = @ - 1]
    /\ hook' = [hook EXCEPT ![h].canPing = FALSE, ![h].missed = 0, ![h].sent = 0]
    /\ UNCHANGED shown

Capped(n) == IF n < PingCap THEN n + 1 ELSE n

\* The heartbeat interval: one more ping, or the end of a mute connection.
Tick(h) ==
    LET s == hook[h].cur IN
    /\ hook[h].beating /\ s # NoSocket /\ sock[s].st = "open"
    /\ hook[h].ready /\ hook[h].canPing
    /\ IF hook[h].missed >= MaxMissed
       THEN sock' = Closing(s) /\ UNCHANGED hook
       ELSE /\ sock' = [sock EXCEPT ![s].pings = Capped(@)]
            /\ hook' = [hook EXCEPT ![h].missed = @ + 1, ![h].sent = Capped(@)]
    /\ UNCHANGED shown

\* The peer or the network ends the connection, or the link goes mute.
PeerCloses(s) ==
    /\ Live(s)
    /\ sock' = Closing(s)
    /\ UNCHANGED <<hook, shown>>

LinkDies(s) ==
    /\ sock[s].st = "open" /\ ~sock[s].dead
    /\ sock' = [sock EXCEPT ![s].dead = TRUE]
    /\ UNCHANGED <<hook, shown>>

\* The refs after onclose has scheduled a retry; the handle of a timer that is
\* still pending is overwritten.
Scheduled(r) ==
    [r EXCEPT !.attempts = @ + 1, !.timer = TRUE,
              !.strays = IF r.timer /\ @ < MaxTimers THEN @ + 1 ELSE @]

\* The refs once socket s is closed, whichever socket of h that is.
Lost(h, s) ==
    [Stopped(hook[h]) EXCEPT !.ready = FALSE,
                             !.cur = IF @ = s THEN NoSocket ELSE @]

\* (mutant) One attempt too many.
MayRetryOneMore(r) == ~r.manual /\ ~r.fatal /\ r.attempts <= MaxAttempts

MayRetry(r) == ~r.manual /\ ~r.fatal /\ r.attempts < MaxAttempts

\* (mutant) The close of a refused connection leaves the header alone.
ShownAfterCloseUnlessFatal(r) ==
    [connected |-> shown.connected /\ ~MayRetry(r),
     retrying |-> MayRetry(r) \/ shown.retrying]

ShownAfterClose(r) ==
    [connected |-> FALSE,
     retrying |-> MayRetry(r) \/ (shown.retrying /\ (r.manual \/ ~r.fatal))]

\* onclose: the refs may be those of a newer socket.
Closed(s) ==
    LET h == sock[s].of
        r == Lost(h, s)
    IN  /\ sock[s].st = "closing"
        /\ sock' = [sock EXCEPT ![s] = NoSock]
        /\ shown' = ShownAfterClose(r)
        /\ hook' = [hook EXCEPT ![h] = IF MayRetry(r) THEN Scheduled(r) ELSE r]

---------------------------------------------------------------------------
Next ==
    \/ \E h \in Hooks :
         \/ Mount(h) \/ Unmount(h)
         \/ Request(h) \/ RequestDone(h) \/ RequestFails(h)
         \/ RetryTimer(h) \/ StrayTimer(h) \/ Tick(h)
    \/ \E s \in Sockets :
         \/ Opened(s) \/ Challenge(s)
         \/ Accepted(s) \/ Refused(s) \/ RefusedForGood(s)
         \/ \E ok \in BOOLEAN : PingAnswered(s, ok)
         \/ PingUnknown(s)
         \/ PeerCloses(s) \/ LinkDies(s) \/ Closed(s)
    \/ HeaderReconnect

Spec == Init /\ [][Next]_vars

\* Timers and intervals fire and a closing socket is closed at last; the
\* gateway and the network owe nothing.
FairSpec ==
    /\ Spec
    /\ \A h \in Hooks : WF_vars(Tick(h)) /\ WF_vars(RetryTimer(h)) /\ WF_vars(StrayTimer(h))
    /\ \A s \in Sockets : WF_vars(Closed(s))
---------------------------------------------------------------------------
(* Properties *)

\* A live socket is always the one its hook remembers, so that there is one of
\* them at most and disconnect can close it: stray timers, late answers and
\* sockets that are slow to close included.
LiveSocketIsCurrent == \A s \in Sockets : Live(s) => hook[sock[s].of].cur = s

\* The header says Connected only while some socket whose handshake succeeded
\* is open or its close event is still to come, whichever hook changed the
\* shared record last.
ShownIsReal ==
    shown.connected =>
        \E s \in Sockets : sock[s] # NoSock /\ sock[s].phase = "accepted"

\* A mounted hook that lost its connection has a timer to get it back, unless
\* the gateway refused it for good or the attempts are used up; a close event
\* of an older socket does not use that timer up.
RetryPending ==
    \A h \in Hooks :
        hook[h].mounted /\ hook[h].url /\ ~hook[h].fatal /\ hook[h].attempts < MaxAttempts =>
            hook[h].cur # NoSocket \/ hook[h].timer \/ hook[h].strays > 0

\* The header does not say Connected for ever over links that are dead: the
\* heartbeat closes them, unless the gateway does not know ping.
DeadLinkIsShown ==
    shown.connected ~>
        \/ ~shown.connected
        \/ \E s \in Sockets : Hears(s) /\ hook[sock[s].of].ready
        \/ \E h \in Hooks : ~hook[h].canPing
=============================================================================
