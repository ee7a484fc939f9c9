-------------------------- MODULE GatewaySocketProofs --------------------------
(***************************************************************************)
(* The safety invariants of GatewaySocket for any number of hooks, sockets *)
(* and attempts.                                                           *)
(***************************************************************************)
EXTENDS GatewaySocket, TLAPS

\* wsRef refers to a socket of its own hook.
OwnSocket ==
    \A h \in Hooks : hook[h].cur # NoSocket =>
        sock[hook[h].cur] # NoSock /\ sock[hook[h].cur].of = h

\* A completed handshake is that of the current socket.
ReadyIsAccepted ==
    \A h \in Hooks : hook[h].ready =>
        hook[h].cur # NoSocket /\ sock[hook[h].cur].phase = "accepted"

\* Pings are sent on sockets whose handshake succeeded.
PingedIsAccepted ==
    \A s \in Sockets : sock[s] # NoSock /\ sock[s].pings > 0 => sock[s].phase = "accepted"

MountedIsNotManual == \A h \in Hooks : hook[h].mounted => ~hook[h].manual

\* The inductive invariant.
IInv ==
    /\ TypeOK
    /\ LiveSocketIsCurrent
    /\ OwnSocket
    /\ ReadyIsAccepted
    /\ PingedIsAccepted
    /\ ShownIsReal
    /\ MountedIsNotManual
    /\ RetryPending

\* Every instance starts with empty refs.
LEMMA InitIInv == Init => IInv
<1> SUFFICES ASSUME Init PROVE IInv
  OBVIOUS
<1>1. FreshHook(FALSE) \in Hook /\ ~FreshHook(FALSE).ready /\ ~FreshHook(FALSE).mounted /\ FreshHook(FALSE).cur = NoSocket
  BY GatewayAssumption DEF FreshHook, Hook
<1>2. \A h \in Hooks : hook[h] = FreshHook(FALSE)
  BY DEF Init
<1>3. \A s \in Sockets : sock[s] = NoSock
  BY DEF Init
<1>4. TypeOK
  BY <1>1 DEF Init, TypeOK
<1>5. LiveSocketIsCurrent /\ PingedIsAccepted /\ ShownIsReal
  BY <1>3 DEF Init, LiveSocketIsCurrent, PingedIsAccepted, ShownIsReal, Live, NoSock
<1>6. OwnSocket /\ ReadyIsAccepted /\ MountedIsNotManual /\ RetryPending
  BY <1>1, <1>2 DEF OwnSocket, ReadyIsAccepted, MountedIsNotManual, RetryPending
<1> QED
  BY <1>4, <1>5, <1>6 DEF IInv


\* A step after which every hook has the socket, the handshake and the timers
\* it had, and no socket has come to life or gone.
Quiet ==
    /\ TypeOK'
    /\ \A h \in Hooks :
         /\ hook'[h].cur = hook[h].cur /\ hook'[h].ready = hook[h].ready
         /\ hook'[h].mounted = hook[h].mounted /\ hook'[h].manual = hook[h].manual
         /\ hook'[h].url = hook[h].url /\ hook'[h].attempts = hook[h].attempts
         /\ hook'[h].timer = hook[h].timer /\ hook'[h].strays = hook[h].strays
         /\ hook[h].fatal => hook'[h].fatal
    /\ \A s \in Sockets :
         /\ sock'[s] = NoSock <=> sock[s] = NoSock
         /\ sock[s] # NoSock =>
              /\ sock'[s].of = sock[s].of
              /\ sock'[s].st \in {"connecting", "open"} => Live(s)
              /\ sock[s].phase = "accepted" => sock'[s].phase = "accepted"
              /\ sock'[s].pings > 0 => sock'[s].phase = "accepted"
    /\ shown'.connected = shown.connected

\* A quiet step keeps the invariant.
LEMMA QuietStep == IInv /\ Quiet => IInv'
<1> SUFFICES ASSUME IInv, Quiet PROVE IInv'
  OBVIOUS
<1> USE DEF IInv, Quiet
<1>0. \A h \in Hooks : hook[h].cur \in Sockets \cup {NoSocket}
  BY DEF TypeOK, Hook
<1>1. LiveSocketIsCurrent'
  <2> SUFFICES ASSUME NEW s \in Sockets, Live(s)' PROVE hook'[sock'[s].of].cur = s
    BY DEF LiveSocketIsCurrent
  <2>1. sock'[s] # NoSock
    BY DEF Live, NoSock
  <2>2. Live(s) /\ sock'[s].of = sock[s].of /\ sock[s].of \in Hooks
    BY <2>1 DEF Live, TypeOK, Sock
  <2> QED
    BY <2>2 DEF LiveSocketIsCurrent
<1>2. OwnSocket'
  BY <1>0 DEF OwnSocket
<1>3. ReadyIsAccepted'
  BY <1>0 DEF ReadyIsAccepted, OwnSocket
<1>4. PingedIsAccepted'
  BY DEF PingedIsAccepted
<1>5. ShownIsReal'
  BY DEF ShownIsReal
<1>6. MountedIsNotManual' /\ RetryPending'
  BY DEF MountedIsNotManual, RetryPending
<1> QED
  BY <1>1, <1>2, <1>3, <1>4, <1>5, <1>6

\* Sending a request, its failure, and the header's reconnect change nothing
\* the invariant is about.
LEMMA RequestSteps ==
    ASSUME IInv, NEW h \in Hooks, Request(h) \/ RequestFails(h) PROVE IInv'
<1>1. hook[h] \in Hook
  BY DEF IInv, TypeOK
<1>2. [hook[h] EXCEPT !.fetching = TRUE] \in Hook /\ [hook[h] EXCEPT !.fetching = FALSE] \in Hook
  BY <1>1 DEF Hook
<1>3. TypeOK'
  BY <1>2 DEF IInv, TypeOK, Request, RequestFails
<1>4. Quiet
  BY <1>1, <1>3 DEF IInv, TypeOK, Quiet, Request, RequestFails, Hook, Live, PingedIsAccepted
<1> QED
  BY <1>4, QuietStep

LEMMA HeaderStep == ASSUME IInv, HeaderReconnect PROVE IInv'
<1>1. TypeOK' /\ shown'.connected = shown.connected
  BY DEF IInv, TypeOK, HeaderReconnect
<1>2. Quiet
  BY <1>1 DEF IInv, TypeOK, Quiet, HeaderReconnect, Live, PingedIsAccepted
<1> QED
  BY <1>2, QuietStep

LEMMA StutterStep == ASSUME IInv, UNCHANGED vars PROVE IInv'
  BY DEF IInv, TypeOK, vars, LiveSocketIsCurrent, OwnSocket, ReadyIsAccepted,
     PingedIsAccepted, ShownIsReal, MountedIsNotManual, RetryPending, Live

\* The type of a socket that is closing, and what the step keeps of it.
LEMMA ClosingSocket ==
    ASSUME IInv, NEW s \in Sockets, Live(s)
    PROVE  \E n \in Sock :
             /\ Closing(s) = [sock EXCEPT ![s] = n] /\ n # NoSock
             /\ n.of = sock[s].of /\ n.phase = sock[s].phase
             /\ n.pings = 0 /\ n.st = "closing"
<1> DEFINE n == [sock[s] EXCEPT !.st = "closing", !.pings = 0, !.dead = FALSE]
<1>1. sock[s] \in Sock
  BY DEF IInv, TypeOK, Live, NoSock
<1>0. 0 \in 0..PingCap
  BY GatewayAssumption
<1>2. n \in Sock
  BY <1>0, <1>1 DEF Sock
<1>3. n.of = sock[s].of /\ n.phase = sock[s].phase /\ n.pings = 0 /\ n.st = "closing"
  BY <1>1 DEF Sock
<1>4. Closing(s) = [sock EXCEPT ![s] = n]
  BY DEF Closing
<1> HIDE DEF n
<1>5. n # NoSock
  BY <1>3 DEF NoSock
<1> QED
  BY <1>2, <1>3, <1>4, <1>5

\* The callbacks of a socket that touch nothing but the socket.
LEMMA SocketSteps ==
    ASSUME IInv, NEW s \in Sockets,
           Opened(s) \/ Challenge(s) \/ Refused(s) \/ PeerCloses(s) \/ LinkDies(s)
    PROVE  IInv'
<1>1. sock[s] \in Sock /\ sock[s] # NoSock
  BY DEF IInv, TypeOK, Opened, Challenge, Refused, PeerCloses, LinkDies, Hears, Live, NoSock
<1>2. PICK n \in Sock :
        /\ sock' = [sock EXCEPT ![s] = n] /\ n # NoSock
        /\ n.of = sock[s].of
        /\ n.st \in {"connecting", "open"} => Live(s)
        /\ sock[s].phase = "accepted" => n.phase = "accepted"
        /\ n.pings > 0 => n.phase = "accepted"
  <2>1. CASE Opened(s)
    <3> DEFINE n == [sock[s] EXCEPT !.st = "open"]
    <3>1. n \in Sock /\ n # NoSock
      BY <1>1 DEF Sock, NoSock
    <3> QED
      BY <2>1, <1>1, <3>1 DEF Opened, Live, Sock, IInv, PingedIsAccepted
  <2>2. CASE Challenge(s)
    <3> DEFINE n == [sock[s] EXCEPT !.phase = "asked"]
    <3>1. n \in Sock /\ n # NoSock
      BY <1>1 DEF Sock, NoSock
    <3> QED
      BY <2>2, <1>1, <3>1 DEF Challenge, Hears, Live, Sock, IInv, PingedIsAccepted
  <2>3. CASE Refused(s)
    <3> DEFINE n == [sock[s] EXCEPT !.phase = "refused"]
    <3>1. n \in Sock /\ n # NoSock
      BY <1>1 DEF Sock, NoSock
    <3> QED
      BY <2>3, <1>1, <3>1 DEF Refused, Hears, Live, Sock, IInv, PingedIsAccepted
  <2>4. CASE PeerCloses(s)
    <3>1. Live(s) /\ sock' = Closing(s)
      BY <2>4 DEF PeerCloses
    <3> QED
      BY <3>1, ClosingSocket, SMT
  <2>5. CASE LinkDies(s)
    <3> DEFINE n == [sock[s] EXCEPT !.dead = TRUE]
    <3>1. n \in Sock /\ n # NoSock
      BY <1>1 DEF Sock, NoSock
    <3> QED
      BY <2>5, <1>1, <3>1 DEF LinkDies, Live, Sock, IInv, PingedIsAccepted
  <2> QED
    BY <2>1, <2>2, <2>3, <2>4, <2>5
<1>3. hook' = hook /\ shown' \in [connected : BOOLEAN, retrying : BOOLEAN]
      /\ shown'.connected = shown.connected
  BY DEF IInv, TypeOK, Opened, Challenge, Refused, PeerCloses, LinkDies
<1>4. TypeOK'
  BY <1>2, <1>3 DEF IInv, TypeOK
<1>5. Quiet
  BY <1>1, <1>2, <1>3, <1>4 DEF Quiet, IInv, TypeOK, PingedIsAccepted, Live
<1> QED
  BY <1>5, QuietStep

\* What Quiet asks of new refs n for r, and of a new socket m for s.
KeepsRefs(n, r) ==
    /\ n \in Hook
    /\ n.cur = r.cur /\ n.ready = r.ready /\ n.mounted = r.mounted
    /\ n.manual = r.manual /\ n.url = r.url /\ n.attempts = r.attempts
    /\ n.timer = r.timer /\ n.strays = r.strays
    /\ r.fatal => n.fatal

KeepsSocket(m, s) ==
    /\ m \in Sock /\ m # NoSock /\ sock[s] # NoSock
    /\ m.of = sock[s].of
    /\ m.st \in {"connecting", "open"} => Live(s)
    /\ sock[s].phase = "accepted" => m.phase = "accepted"
    /\ m.pings > 0 => m.phase = "accepted"

\* Such an update is quiet.
LEMMA QuietUpdate ==
    ASSUME IInv, NEW h \in Hooks, NEW n, KeepsRefs(n, hook[h]),
           NEW s \in Sockets, NEW m, KeepsSocket(m, s),
           hook' = [hook EXCEPT ![h] = n], sock' = [sock EXCEPT ![s] = m],
           shown' = shown
    PROVE  IInv'
<1>1. TypeOK'
  BY DEF IInv, TypeOK, KeepsRefs, KeepsSocket
<1>2. Quiet
  BY <1>1 DEF Quiet, IInv, TypeOK, PingedIsAccepted, Live, KeepsRefs, KeepsSocket
<1> QED
  BY <1>2, QuietStep

\* The refs after stopHeartbeat.
LEMMA StoppedRefs ==
    ASSUME NEW r \in Hook
    PROVE  /\ Stopped(r) \in Hook
           /\ Stopped(r).cur = r.cur /\ Stopped(r).ready = r.ready
           /\ Stopped(r).mounted = r.mounted /\ Stopped(r).manual = r.manual
           /\ Stopped(r).url = r.url /\ Stopped(r).attempts = r.attempts
           /\ Stopped(r).timer = r.timer /\ Stopped(r).strays = r.strays
           /\ Stopped(r).fatal = r.fatal
<1>1. 0 \in 0..PingCap /\ 0 \in 0..MaxMissed
  BY GatewayAssumption
<1> QED
  BY <1>1 DEF Stopped, Hook

\* A heartbeat tick on a completed connection.
LEMMA TickStep == ASSUME IInv, NEW h \in Hooks, Tick(h) PROVE IInv'
<1> DEFINE s == hook[h].cur
           m == [sock[s] EXCEPT !.pings = Capped(@)]
           n == [hook[h] EXCEPT !.missed = @ + 1, !.sent = Capped(@)]
<1>1. hook[h] \in Hook /\ s \in Sockets /\ sock[s] \in Sock /\ sock[s] # NoSock /\ Live(s)
  BY DEF IInv, TypeOK, Hook, Tick, Live, NoSock
<1>2. sock[s].phase = "accepted"
  BY DEF IInv, ReadyIsAccepted, Tick
<1>3. CASE hook[h].missed >= MaxMissed
  <2>1. PICK c \in Sock : /\ Closing(s) = [sock EXCEPT ![s] = c] /\ c # NoSock
             /\ c.of = sock[s].of /\ c.phase = sock[s].phase
             /\ c.pings = 0 /\ c.st = "closing"
    BY <1>1, ClosingSocket
  <2>2. hook' = [hook EXCEPT ![h] = hook[h]] /\ sock' = [sock EXCEPT ![s] = c] /\ shown' = shown
    BY <1>3, <2>1 DEF Tick, IInv, TypeOK
  <2>3. KeepsSocket(c, s) /\ KeepsRefs(hook[h], hook[h])
    BY <1>1, <2>1 DEF KeepsSocket, KeepsRefs
  <2> HIDE DEF s
  <2> QED
    BY <1>1, <2>2, <2>3, QuietUpdate
<1>4. CASE ~(hook[h].missed >= MaxMissed)
  <2>1. Capped(sock[s].pings) \in 0..PingCap /\ Capped(hook[h].sent) \in 0..PingCap
        /\ hook[h].missed + 1 \in 0..MaxMissed
    BY <1>1, <1>4, GatewayAssumption DEF Capped, Sock, Hook
  <2>2. n \in Hook
    BY <1>1, <2>1 DEF Hook
  <2>3. m \in Sock /\ m.of = sock[s].of /\ m.st = sock[s].st /\ m.phase = sock[s].phase
    BY <1>1, <2>1 DEF Sock
  <2>4. m # NoSock
    BY <1>1, <2>3 DEF NoSock, Live
  <2>5. hook' = [hook EXCEPT ![h] = n] /\ sock' = [sock EXCEPT ![s] = m] /\ shown' = shown
    BY <1>4 DEF Tick
  <2>6. /\ n.cur = hook[h].cur /\ n.ready = hook[h].ready /\ n.mounted = hook[h].mounted
        /\ n.manual = hook[h].manual /\ n.url = hook[h].url /\ n.attempts = hook[h].attempts
        /\ n.timer = hook[h].timer /\ n.strays = hook[h].strays /\ n.fatal = hook[h].fatal
    BY <1>1 DEF Hook
  <2> HIDE DEF n, m, s
  <2>7. KeepsSocket(m, s) /\ KeepsRefs(n, hook[h])
    BY <1>1, <1>2, <2>2, <2>3, <2>4, <2>6 DEF KeepsSocket, KeepsRefs
  <2> QED
    BY <1>1, <2>5, <2>7, QuietUpdate
<1> QED
  BY <1>3, <1>4

\* One unanswered ping less.
LEMMA PingLess ==
    ASSUME IInv, NEW s \in Sockets, Hears(s), sock[s].pings > 0
    PROVE  \E m \in Sock :
             /\ [sock EXCEPT ![s].pings = @ - 1] = [sock EXCEPT ![s] = m] /\ m # NoSock
             /\ m.of = sock[s].of /\ m.st = sock[s].st /\ m.phase = "accepted"
             /\ sock[s] # NoSock /\ sock[s].phase = "accepted"
             /\ sock[s].of \in Hooks /\ hook[sock[s].of] \in Hook
             /\ hook[sock[s].of].cur = s
<1> DEFINE m == [sock[s] EXCEPT !.pings = @ - 1]
<1>1. sock[s] \in Sock /\ sock[s] # NoSock /\ Live(s)
  BY DEF IInv, TypeOK, Hears, Live, NoSock
<1>2. sock[s].pings - 1 \in 0..PingCap
  BY <1>1, GatewayAssumption DEF Sock
<1>3. m \in Sock /\ m.of = sock[s].of /\ m.st = sock[s].st /\ m.phase = sock[s].phase
  BY <1>1, <1>2 DEF Sock
<1>4. sock[s].phase = "accepted"
  BY <1>1 DEF IInv, PingedIsAccepted
<1>5. [sock EXCEPT ![s].pings = @ - 1] = [sock EXCEPT ![s] = m]
  OBVIOUS
<1>6. sock[s].of \in Hooks /\ hook[sock[s].of] \in Hook /\ hook[sock[s].of].cur = s
  BY <1>1 DEF IInv, TypeOK, Sock, LiveSocketIsCurrent
<1> HIDE DEF m
<1>7. m # NoSock
  BY <1>1, <1>3 DEF NoSock, Live
<1> QED
  BY <1>1, <1>3, <1>4, <1>5, <1>6, <1>7

\* The gateway does not know ping.
LEMMA PingUnknownStep == ASSUME IInv, NEW s \in Sockets, PingUnknown(s) PROVE IInv'
<1> DEFINE h == sock[s].of
           n == [hook[h] EXCEPT !.canPing = FALSE, !.missed = 0, !.sent = 0]
<1>1. PICK m \in Sock :
        /\ [sock EXCEPT ![s].pings = @ - 1] = [sock EXCEPT ![s] = m] /\ m # NoSock
        /\ m.of = sock[s].of /\ m.st = sock[s].st /\ m.phase = "accepted"
        /\ sock[s] # NoSock /\ sock[s].phase = "accepted"
        /\ h \in Hooks /\ hook[h] \in Hook /\ hook[h].cur = s
  BY PingLess DEF PingUnknown
<1>2. 0 \in 0..PingCap /\ 0 \in 0..MaxMissed
  BY GatewayAssumption
<1>3. n \in Hook
  BY <1>1, <1>2 DEF Hook
<1>4. /\ n.cur = hook[h].cur /\ n.ready = hook[h].ready /\ n.mounted = hook[h].mounted
      /\ n.manual = hook[h].manual /\ n.url = hook[h].url /\ n.attempts = hook[h].attempts
      /\ n.timer = hook[h].timer /\ n.strays = hook[h].strays /\ n.fatal = hook[h].fatal
  BY <1>1 DEF Hook
<1>5. hook' = [hook EXCEPT ![h] = n] /\ sock' = [sock EXCEPT ![s] = m] /\ shown' = shown
  BY <1>1 DEF PingUnknown
<1>6. Live(s)
  BY DEF PingUnknown, Hears, Live
<1> HIDE DEF n
<1>7. KeepsSocket(m, s) /\ KeepsRefs(n, hook[h])
  BY <1>1, <1>3, <1>4, <1>6 DEF KeepsSocket, KeepsRefs
<1> QED
  BY <1>1, <1>5, <1>7, QuietUpdate

\* An error that ends the retries: the refs are stopped and marked.
LEMMA RefusedForGoodStep == ASSUME IInv, NEW s \in Sockets, RefusedForGood(s) PROVE IInv'
<1> DEFINE h == sock[s].of
           n == [Stopped(hook[h]) EXCEPT !.fatal = TRUE]
<1>1. Live(s) /\ sock[s] \in Sock /\ sock[s] # NoSock /\ h \in Hooks /\ hook[h] \in Hook
  BY DEF RefusedForGood, Hears, Live, IInv, TypeOK, Sock, NoSock
<1>2. PICK m \in Sock : /\ Closing(s) = [sock EXCEPT ![s] = m] /\ m # NoSock
             /\ m.of = sock[s].of /\ m.phase = sock[s].phase
             /\ m.pings = 0 /\ m.st = "closing"
  BY <1>1, ClosingSocket
<1>3. KeepsRefs(n, hook[h])
  <2> DEFINE r == Stopped(hook[h])
  <2>1. KeepsRefs(r, hook[h])
    BY <1>1, StoppedRefs DEF KeepsRefs
  <2> HIDE DEF r
  <2> QED
    BY <2>1 DEF KeepsRefs, Hook, r
<1>4. hook' = [hook EXCEPT ![h] = n] /\ sock' = [sock EXCEPT ![s] = m] /\ shown' = shown
  BY <1>2 DEF RefusedForGood
<1>5. KeepsSocket(m, s)
  BY <1>1, <1>2 DEF KeepsSocket
<1> HIDE DEF n
<1> QED
  BY <1>1, <1>3, <1>4, <1>5, QuietUpdate

\* connect() called with refs r that differ from those of h in timers and
\* requests only: a live socket is kept, or a new one becomes the current one.
LEMMA ConnectStep ==
    ASSUME IInv, NEW h \in Hooks, NEW r \in Hook,
           r.cur = hook[h].cur, r.ready = hook[h].ready, r.mounted = hook[h].mounted,
           r.manual = hook[h].manual, r.url = hook[h].url, r.attempts = hook[h].attempts,
           r.fatal = hook[h].fatal,
           Connect(h, r), shown' = shown
    PROVE  IInv'
<1>0. \A g \in Hooks : hook[g].cur \in Sockets \cup {NoSocket}
  BY DEF IInv, TypeOK, Hook
<1>1. CASE HasLive(h)
  <2>1. hook' = [hook EXCEPT ![h] = r] /\ sock' = sock /\ hook[h].cur # NoSocket
    BY <1>1 DEF Connect, HasLive
  <2>2. TypeOK'
    BY <2>1 DEF IInv, TypeOK
  <2>3. LiveSocketIsCurrent' /\ PingedIsAccepted' /\ ShownIsReal'
    BY <2>1 DEF IInv, TypeOK, LiveSocketIsCurrent, PingedIsAccepted, ShownIsReal, Live
  <2>4. OwnSocket' /\ ReadyIsAccepted'
    BY <2>1 DEF IInv, TypeOK, OwnSocket, ReadyIsAccepted
  <2>5. MountedIsNotManual' /\ RetryPending'
    BY <2>1 DEF IInv, TypeOK, MountedIsNotManual, RetryPending
  <2> QED
    BY <2>2, <2>3, <2>4, <2>5 DEF IInv
<1>2. CASE ~HasLive(h)
  <2> DEFINE m == [st |-> "connecting", of |-> h, phase |-> "silent",
                   pings |-> 0, dead |-> FALSE]
  <2>1. PICK s \in Sockets :
          /\ sock[s] = NoSock
          /\ sock' = [sock EXCEPT ![s] = m]
          /\ hook' = [hook EXCEPT ![h] = [r EXCEPT !.cur = s, !.url = TRUE, !.ready = FALSE,
                                            !.manual = FALSE, !.fatal = FALSE]]
    BY <1>2 DEF Connect
  <2> DEFINE n == [r EXCEPT !.cur = s, !.url = TRUE, !.ready = FALSE,
                            !.manual = FALSE, !.fatal = FALSE]
  <2>2. n \in Hook /\ n.cur = s /\ ~n.ready /\ ~n.manual
    BY DEF Hook
  <2>3. m \in Sock /\ m.of = h /\ m.pings = 0 /\ m.st = "connecting"
    BY GatewayAssumption DEF Sock
  <2>4. m # NoSock /\ s # NoSocket
    BY GatewayAssumption DEF NoSock
  <2>5. hook' = [hook EXCEPT ![h] = n]
    BY <2>1
  <2> HIDE DEF m, n
  <2>6. /\ hook'[h] = n /\ \A g \in Hooks : g # h => hook'[g] = hook[g]
        /\ sock'[s] = m /\ \A t \in Sockets : t # s => sock'[t] = sock[t]
    BY <2>1, <2>5 DEF IInv, TypeOK
  <2>7. TypeOK'
    BY <2>1, <2>2, <2>3, <2>5 DEF IInv, TypeOK
  <2>8. LiveSocketIsCurrent'
    <3> SUFFICES ASSUME NEW t \in Sockets, Live(t)' PROVE hook'[sock'[t].of].cur = t
      BY DEF LiveSocketIsCurrent
    <3>1. CASE t = s
      BY <3>1, <2>2, <2>3, <2>6
    <3>2. CASE t # s
      <4>1. Live(t) /\ sock'[t].of = sock[t].of
        BY <3>2, <2>6 DEF Live
      <4>2. sock[t].of \in Hooks /\ hook[sock[t].of].cur = t
        BY <4>1 DEF IInv, TypeOK, LiveSocketIsCurrent, Live, Sock, NoSock
      <4>3. sock[t].of # h
        BY <4>1, <4>2, <1>2, GatewayAssumption DEF HasLive
      <4> QED
        BY <4>1, <4>2, <4>3, <2>6
    <3> QED
      BY <3>1, <3>2
  <2>9. OwnSocket'
    BY <1>0, <2>1, <2>2, <2>3, <2>4, <2>6 DEF IInv, OwnSocket
  <2>10. ReadyIsAccepted'
    BY <1>0, <2>1, <2>2, <2>6 DEF IInv, ReadyIsAccepted, OwnSocket
  <2>11. PingedIsAccepted'
    BY <2>3, <2>6 DEF IInv, PingedIsAccepted
  <2>12. ShownIsReal'
    BY <2>1, <2>6 DEF IInv, ShownIsReal
  <2>13. MountedIsNotManual' /\ RetryPending'
    BY <2>2, <2>4, <2>6 DEF IInv, MountedIsNotManual, RetryPending
  <2> QED
    BY <2>7, <2>8, <2>9, <2>10, <2>11, <2>12, <2>13 DEF IInv
<1> QED
  BY <1>1, <1>2

\* connect() is called by an answered request and by timers.
LEMMA ConnectSteps ==
    ASSUME IInv, NEW h \in Hooks, RequestDone(h) \/ RetryTimer(h) \/ StrayTimer(h)
    PROVE  IInv'
<1>1. hook[h] \in Hook
  BY DEF IInv, TypeOK
<1>2. CASE RequestDone(h)
  <2> DEFINE r == [hook[h] EXCEPT !.fetching = FALSE]
  <2>1. /\ r \in Hook /\ r.cur = hook[h].cur /\ r.ready = hook[h].ready
        /\ r.mounted = hook[h].mounted /\ r.manual = hook[h].manual /\ r.url = hook[h].url
        /\ r.attempts = hook[h].attempts /\ r.fatal = hook[h].fatal
    BY <1>1 DEF Hook
  <2>2. Connect(h, r) /\ shown' = shown
    BY <1>2 DEF RequestDone
  <2> HIDE DEF r
  <2> QED
    BY <2>1, <2>2, ConnectStep
<1>3. CASE RetryTimer(h)
  <2> DEFINE r == [hook[h] EXCEPT !.timer = FALSE]
  <2>1. /\ r \in Hook /\ r.cur = hook[h].cur /\ r.ready = hook[h].ready
        /\ r.mounted = hook[h].mounted /\ r.manual = hook[h].manual /\ r.url = hook[h].url
        /\ r.attempts = hook[h].attempts /\ r.fatal = hook[h].fatal
    BY <1>1 DEF Hook
  <2>2. Connect(h, r) /\ shown' = shown
    BY <1>3 DEF RetryTimer
  <2> HIDE DEF r
  <2> QED
    BY <2>1, <2>2, ConnectStep
<1>4. CASE StrayTimer(h)
  <2> DEFINE r == [hook[h] EXCEPT !.strays = @ - 1]
  <2>0. hook[h].strays - 1 \in 0..MaxTimers
    BY <1>1, <1>4, GatewayAssumption DEF StrayTimer, Hook
  <2>1. /\ r \in Hook /\ r.cur = hook[h].cur /\ r.ready = hook[h].ready
        /\ r.mounted = hook[h].mounted /\ r.manual = hook[h].manual /\ r.url = hook[h].url
        /\ r.attempts = hook[h].attempts /\ r.fatal = hook[h].fatal
    BY <1>1, <2>0 DEF Hook
  <2>2. Connect(h, r) /\ shown' = shown
    BY <1>4 DEF StrayTimer
  <2> HIDE DEF r
  <2> QED
    BY <2>1, <2>2, ConnectStep
<1> QED
  BY <1>2, <1>3, <1>4

\* The handshake of the current socket s of h succeeds; m is s afterwards.
LEMMA HandshakeStep ==
    ASSUME IInv, NEW s \in Sockets, NEW h \in Hooks, Live(s), sock[s].of = h,
           NEW m \in Sock, m # NoSock, m.of = h, m.phase = "accepted", m.st = sock[s].st,
           sock' = [sock EXCEPT ![s] = m],
           HandshakeComplete(h, hook[h])
    PROVE  IInv'
<1> DEFINE n == [hook[h] EXCEPT !.ready = TRUE, !.attempts = 0, !.beating = TRUE]
<1>0. /\ hook[h] \in Hook /\ hook[h].cur = s /\ s # NoSocket
      /\ \A g \in Hooks : hook[g].cur \in Sockets \cup {NoSocket}
  BY GatewayAssumption DEF IInv, TypeOK, LiveSocketIsCurrent, Hook
<1>1. 0 \in 0..MaxAttempts
  BY GatewayAssumption
<1>2. n \in Hook /\ n.cur = s /\ n.mounted = hook[h].mounted /\ n.manual = hook[h].manual
  BY <1>0, <1>1 DEF Hook
<1>3. hook' = [hook EXCEPT ![h] = n] /\ shown' = [connected |-> TRUE, retrying |-> FALSE]
  BY DEF HandshakeComplete
<1> HIDE DEF n
<1>4. /\ hook'[h] = n /\ \A g \in Hooks : g # h => hook'[g] = hook[g]
      /\ sock'[s] = m /\ \A t \in Sockets : t # s => sock'[t] = sock[t]
  BY <1>3 DEF IInv, TypeOK
<1>5. TypeOK'
  BY <1>2, <1>3 DEF IInv, TypeOK
<1>6. LiveSocketIsCurrent'
  <2> SUFFICES ASSUME NEW t \in Sockets, Live(t)' PROVE hook'[sock'[t].of].cur = t
    BY DEF LiveSocketIsCurrent
  <2>1. Live(t) /\ sock'[t].of = sock[t].of
    BY <1>4 DEF Live
  <2>2. sock[t].of \in Hooks /\ hook[sock[t].of].cur = t
    BY <2>1 DEF IInv, TypeOK, LiveSocketIsCurrent, Live, Sock, NoSock
  <2> QED
    BY <2>1, <2>2, <1>0, <1>2, <1>4
<1>7. OwnSocket' /\ ReadyIsAccepted'
  BY <1>0, <1>2, <1>4 DEF IInv, OwnSocket, ReadyIsAccepted
<1>8. PingedIsAccepted' /\ ShownIsReal'
  BY <1>4 DEF IInv, PingedIsAccepted, ShownIsReal
<1>9. MountedIsNotManual' /\ RetryPending'
  BY <1>0, <1>2, <1>4 DEF IInv, MountedIsNotManual, RetryPending
<1> QED
  BY <1>5, <1>6, <1>7, <1>8, <1>9 DEF IInv

\* A positive answer to the connect request.
LEMMA AcceptedStep == ASSUME IInv, NEW s \in Sockets, Accepted(s) PROVE IInv'
<1> DEFINE h == sock[s].of
           m == [sock[s] EXCEPT !.phase = "accepted"]
<1>1. Live(s) /\ sock[s] \in Sock /\ sock[s] # NoSock /\ h \in Hooks
  BY DEF Accepted, Hears, Live, IInv, TypeOK, Sock, NoSock
<1>2. m \in Sock /\ m.of = h /\ m.st = sock[s].st /\ m.phase = "accepted"
  BY <1>1 DEF Sock
<1>3. sock' = [sock EXCEPT ![s] = m]
  BY DEF Accepted
<1> HIDE DEF m
<1>4. m # NoSock
  BY <1>1, <1>2 DEF NoSock, Live
<1>5. CASE ~hook[h].ready
  <2>1. HandshakeComplete(h, hook[h])
    BY <1>5 DEF Accepted
  <2> HIDE DEF h
  <2> QED
    BY <1>1, <1>2, <1>3, <1>4, <2>1, HandshakeStep DEF h
<1>6. CASE hook[h].ready
  <2>1. hook' = [hook EXCEPT ![h] = hook[h]] /\ shown' = shown
    BY <1>6 DEF Accepted, IInv, TypeOK
  <2>2. KeepsRefs(hook[h], hook[h]) /\ KeepsSocket(m, s)
    BY <1>1, <1>2, <1>4 DEF KeepsRefs, KeepsSocket, IInv, TypeOK
  <2> QED
    BY <1>1, <1>3, <2>1, <2>2, QuietUpdate
<1> QED
  BY <1>5, <1>6

\* An answer to a ping: a pong, or what passes for a completed handshake.
LEMMA PingAnsweredStep ==
    ASSUME IInv, NEW s \in Sockets, NEW ok \in BOOLEAN, PingAnswered(s, ok) PROVE IInv'
<1> DEFINE h == sock[s].of
<1>1. PICK m \in Sock :
        /\ [sock EXCEPT ![s].pings = @ - 1] = [sock EXCEPT ![s] = m] /\ m # NoSock
        /\ m.of = sock[s].of /\ m.st = sock[s].st /\ m.phase = "accepted"
        /\ sock[s] # NoSock /\ sock[s].phase = "accepted"
        /\ h \in Hooks /\ hook[h] \in Hook /\ hook[h].cur = s
  BY PingLess DEF PingAnswered
<1>2. Live(s) /\ sock' = [sock EXCEPT ![s] = m]
  BY <1>1 DEF PingAnswered, Hears, Live
<1>3. CASE ok /\ ~hook[h].ready
  <2>1. HandshakeComplete(h, hook[h])
    BY <1>3 DEF PingAnswered
  <2> QED
    BY <1>1, <1>2, <2>1, HandshakeStep
<1>4. CASE ~(ok /\ ~hook[h].ready)
  <2>1. hook' = [hook EXCEPT ![h] = Pong(h, s)] /\ shown' = shown
    BY <1>4 DEF PingAnswered
  <2>2. KeepsRefs(Pong(h, s), hook[h])
    <3> DEFINE n == [hook[h] EXCEPT !.sent = @ - 1, !.missed = 0]
    <3>1. CASE hook[h].sent > 0 /\ sock[s].pings <= hook[h].sent
      <4>1. hook[h].sent - 1 \in 0..PingCap /\ 0 \in 0..MaxMissed
        BY <1>1, <3>1, GatewayAssumption DEF Hook
      <4>2. KeepsRefs(n, hook[h])
        BY <1>1, <4>1 DEF KeepsRefs, Hook
      <4> QED
        BY <3>1, <4>2 DEF Pong
    <3>2. CASE ~(hook[h].sent > 0 /\ sock[s].pings <= hook[h].sent)
      BY <1>1, <3>2 DEF Pong, KeepsRefs
    <3> QED
      BY <3>1, <3>2
  <2>3. KeepsSocket(m, s)
    BY <1>1, <1>2 DEF KeepsSocket
  <2> QED
    BY <1>1, <1>2, <2>1, <2>2, <2>3, QuietUpdate
<1> QED
  BY <1>3, <1>4

\* The close event of a socket of h, the current one or an older one.
LEMMA ClosedStep == ASSUME IInv, NEW s \in Sockets, Closed(s) PROVE IInv'
<1> DEFINE h == sock[s].of
           r == Lost(h, s)
           n == IF MayRetry(r) THEN Scheduled(r) ELSE r
<1>1. sock[s] \in Sock /\ sock[s] # NoSock /\ sock[s].st = "closing" /\ h \in Hooks
      /\ hook[h] \in Hook /\ \A g \in Hooks : hook[g].cur \in Sockets \cup {NoSocket}
  BY DEF Closed, IInv, TypeOK, Sock, NoSock, Hook
<1>2. /\ r \in Hook /\ ~r.ready
      /\ r.cur = (IF hook[h].cur = s THEN NoSocket ELSE hook[h].cur)
      /\ r.mounted = hook[h].mounted /\ r.manual = hook[h].manual
      /\ r.url = hook[h].url /\ r.fatal = hook[h].fatal /\ r.attempts = hook[h].attempts
  <2> DEFINE q == Stopped(hook[h])
  <2>1. /\ q \in Hook /\ q.cur = hook[h].cur
        /\ q.mounted = hook[h].mounted /\ q.manual = hook[h].manual
        /\ q.url = hook[h].url /\ q.fatal = hook[h].fatal /\ q.attempts = hook[h].attempts
    BY <1>1, StoppedRefs
  <2>2. r = [q EXCEPT !.ready = FALSE, !.cur = IF @ = s THEN NoSocket ELSE @]
    BY DEF Lost
  <2> HIDE DEF q, r
  <2> QED
    BY <2>1, <2>2 DEF Hook
<1> HIDE DEF r
<1>3. /\ n \in Hook /\ ~n.ready /\ n.cur = r.cur
      /\ n.mounted = r.mounted /\ n.manual = r.manual
      /\ n.url = r.url /\ n.fatal = r.fatal
      /\ MayRetry(r) => n.timer
      /\ ~MayRetry(r) => n = r
  <2>1. CASE MayRetry(r)
    <3> DEFINE k == IF r.timer /\ r.strays < MaxTimers THEN r.strays + 1 ELSE r.strays
    <3>1. r.attempts + 1 \in 0..MaxAttempts /\ k \in 0..MaxTimers
      BY <1>2, <2>1, GatewayAssumption DEF MayRetry, Hook
    <3>2. Scheduled(r) = [r EXCEPT !.attempts = r.attempts + 1, !.timer = TRUE, !.strays = k]
      BY DEF Scheduled
    <3> HIDE DEF k
    <3> QED
      BY <1>2, <2>1, <3>1, <3>2 DEF Hook
  <2>2. CASE ~MayRetry(r)
    BY <1>2, <2>2
  <2> QED
    BY <2>1, <2>2
<1>4. /\ hook' = [hook EXCEPT ![h] = n] /\ sock' = [sock EXCEPT ![s] = NoSock]
      /\ shown' \in [connected : BOOLEAN, retrying : BOOLEAN] /\ ~shown'.connected
  BY <1>2 DEF Closed, ShownAfterClose, MayRetry, IInv, TypeOK, r, Hook
<1> HIDE DEF n
<1>5. /\ hook'[h] = n /\ \A g \in Hooks : g # h => hook'[g] = hook[g]
      /\ sock'[s] = NoSock /\ \A t \in Sockets : t # s => sock'[t] = sock[t]
  BY <1>1, <1>4 DEF IInv, TypeOK
<1>6. TypeOK'
  BY <1>1, <1>3, <1>4 DEF IInv, TypeOK
<1>7. LiveSocketIsCurrent'
  <2> SUFFICES ASSUME NEW t \in Sockets, Live(t)' PROVE hook'[sock'[t].of].cur = t
    BY DEF LiveSocketIsCurrent
  <2>1. t # s
    BY <1>5 DEF Live, NoSock
  <2>2. Live(t) /\ sock'[t].of = sock[t].of
    BY <2>1, <1>5 DEF Live
  <2>3. sock[t].of \in Hooks /\ hook[sock[t].of].cur = t
    BY <2>2 DEF IInv, TypeOK, LiveSocketIsCurrent, Live, Sock, NoSock
  <2> QED
    BY <2>1, <2>2, <2>3, <1>2, <1>3, <1>5
<1>8. OwnSocket'
  BY <1>1, <1>2, <1>3, <1>5 DEF IInv, OwnSocket
<1>9. ReadyIsAccepted'
  BY <1>1, <1>2, <1>3, <1>5 DEF IInv, ReadyIsAccepted, OwnSocket
<1>10. PingedIsAccepted' /\ ShownIsReal'
  BY <1>4, <1>5 DEF IInv, PingedIsAccepted, ShownIsReal
<1>11. MountedIsNotManual'
  BY <1>2, <1>3, <1>5 DEF IInv, MountedIsNotManual
<1>12. RetryPending'
  <2> SUFFICES ASSUME NEW g \in Hooks, hook'[g].mounted, hook'[g].url, ~hook'[g].fatal,
                      hook'[g].attempts < MaxAttempts
               PROVE  hook'[g].cur # NoSocket \/ hook'[g].timer \/ hook'[g].strays > 0
    BY DEF RetryPending
  <2>1. CASE g # h
    BY <2>1, <1>5 DEF IInv, RetryPending
  <2>2. CASE g = h
    <3>1. ~r.manual /\ ~r.fatal
      BY <2>2, <1>2, <1>3, <1>5 DEF IInv, MountedIsNotManual
    <3>2. MayRetry(r)
      BY <2>2, <3>1, <1>3, <1>5 DEF MayRetry
    <3> QED
      BY <2>2, <3>2, <1>3, <1>5
  <2> QED
    BY <2>1, <2>2
<1> QED
  BY <1>6, <1>7, <1>8, <1>9, <1>10, <1>11, <1>12 DEF IInv

\* disconnect() as the component goes: the live socket starts to close.
LEMMA UnmountStep == ASSUME IInv, NEW h \in Hooks, Unmount(h) PROVE IInv'
<1> DEFINE n == [Disconnected(hook[h]) EXCEPT !.mounted = FALSE]
<1>1. hook[h] \in Hook /\ \A g \in Hooks : hook[g].cur \in Sockets \cup {NoSocket}
  BY DEF IInv, TypeOK, Hook
<1>2. n \in Hook /\ n.cur = NoSocket /\ ~n.ready /\ ~n.mounted
  <2> DEFINE q == Stopped(hook[h])
  <2>1. q \in Hook
    BY <1>1, StoppedRefs
  <2>2. n = [[q EXCEPT !.manual = TRUE, !.attempts = 0, !.timer = FALSE,
                       !.cur = NoSocket, !.ready = FALSE] EXCEPT !.mounted = FALSE]
    BY DEF Disconnected
  <2>3. 0 \in 0..MaxAttempts
    BY GatewayAssumption
  <2> HIDE DEF q, n
  <2> QED
    BY <2>1, <2>2, <2>3 DEF Hook
<1>3. hook' = [hook EXCEPT ![h] = n] /\ shown' = [connected |-> FALSE, retrying |-> FALSE]
  BY DEF Unmount
<1> HIDE DEF n
<1>4. hook'[h] = n /\ \A g \in Hooks : g # h => hook'[g] = hook[g]
  BY <1>3 DEF IInv, TypeOK
\* No socket of h is live any more; nothing else changes of the sockets.
<1>5. /\ sock' \in [Sockets -> Sock \cup {NoSock}]
      /\ \A t \in Sockets :
           /\ sock'[t] = NoSock <=> sock[t] = NoSock
           /\ sock[t] # NoSock => /\ sock'[t].of = sock[t].of /\ sock'[t].phase = sock[t].phase
                                  /\ sock'[t].pings > 0 => sock[t].pings > 0
           /\ Live(t)' => Live(t) /\ sock[t].of # h
  <2>1. CASE HasLive(h)
    <3> DEFINE s == hook[h].cur
    <3>1. s \in Sockets /\ Live(s) /\ sock[s] # NoSock
      BY <1>1, <2>1 DEF HasLive, Live, NoSock
    <3>2. PICK c \in Sock : /\ Closing(s) = [sock EXCEPT ![s] = c] /\ c # NoSock
             /\ c.of = sock[s].of /\ c.phase = sock[s].phase
             /\ c.pings = 0 /\ c.st = "closing"
      BY <3>1, ClosingSocket
    <3>3. sock' = [sock EXCEPT ![s] = c]
      BY <2>1, <3>2 DEF Unmount, CloseCurrent
    <3> HIDE DEF s
    <3>4. sock'[s] = c /\ \A t \in Sockets : t # s => sock'[t] = sock[t]
      BY <3>1, <3>3 DEF IInv, TypeOK
    <3>5. \A t \in Sockets : t # s /\ Live(t) => sock[t].of # h
      BY DEF IInv, LiveSocketIsCurrent, s
    <3>6. sock' \in [Sockets -> Sock \cup {NoSock}]
      BY <3>1, <3>3 DEF IInv, TypeOK
    <3> QED
      BY <3>1, <3>2, <3>4, <3>5, <3>6 DEF Live
  <2>2. CASE ~HasLive(h)
    <3>1. sock' = sock
      BY <2>2 DEF Unmount, CloseCurrent
    <3>2. \A t \in Sockets : Live(t) => sock[t].of # h
      BY <2>2, GatewayAssumption DEF HasLive, IInv, LiveSocketIsCurrent
    <3> QED
      BY <3>1, <3>2 DEF IInv, TypeOK, Live
  <2> QED
    BY <2>1, <2>2
<1>6. TypeOK'
  BY <1>2, <1>3, <1>5 DEF IInv, TypeOK
<1>7. LiveSocketIsCurrent'
  <2> SUFFICES ASSUME NEW t \in Sockets, Live(t)' PROVE hook'[sock'[t].of].cur = t
    BY DEF LiveSocketIsCurrent
  <2>1. Live(t) /\ sock[t].of # h /\ sock[t] # NoSock /\ sock'[t].of = sock[t].of
    BY <1>5 DEF Live, NoSock
  <2>2. sock[t].of \in Hooks /\ hook[sock[t].of].cur = t
    BY <2>1 DEF IInv, TypeOK, LiveSocketIsCurrent, Sock
  <2> QED
    BY <2>1, <2>2, <1>4
<1>8. OwnSocket' /\ ReadyIsAccepted'
  BY <1>1, <1>2, <1>4, <1>5 DEF IInv, OwnSocket, ReadyIsAccepted
<1>9. PingedIsAccepted' /\ ShownIsReal'
  BY <1>3, <1>5 DEF IInv, PingedIsAccepted, ShownIsReal
<1>10. MountedIsNotManual' /\ RetryPending'
  BY <1>2, <1>4 DEF IInv, MountedIsNotManual, RetryPending
<1> QED
  BY <1>6, <1>7, <1>8, <1>9, <1>10 DEF IInv

\* A component mounts with fresh refs.
LEMMA MountStep == ASSUME IInv, NEW h \in Hooks, Mount(h) PROVE IInv'
<1> DEFINE n == FreshHook(TRUE)
<1>1. n \in Hook /\ n.cur = NoSocket /\ ~n.ready /\ ~n.manual /\ ~n.url
  BY GatewayAssumption DEF FreshHook, Hook
<1>2. hook' = [hook EXCEPT ![h] = n] /\ sock' = sock /\ shown' = shown
  BY DEF Mount
<1> HIDE DEF n
<1>3. hook'[h] = n /\ \A g \in Hooks : g # h => hook'[g] = hook[g]
  BY <1>2 DEF IInv, TypeOK
<1>4. TypeOK'
  BY <1>1, <1>2 DEF IInv, TypeOK
<1>5. LiveSocketIsCurrent'
  <2> SUFFICES ASSUME NEW t \in Sockets, Live(t) PROVE hook'[sock[t].of].cur = t
    BY <1>2 DEF LiveSocketIsCurrent, Live
  <2>1. sock[t] # NoSock
    BY DEF Live, NoSock
  <2>2. sock[t].of # h
    BY <2>1 DEF Mount
  <2> QED
    BY <2>1, <2>2, <1>3 DEF IInv, TypeOK, LiveSocketIsCurrent, Sock
<1>6. OwnSocket' /\ ReadyIsAccepted'
  BY <1>1, <1>2, <1>3 DEF IInv, OwnSocket, ReadyIsAccepted
<1>7. PingedIsAccepted' /\ ShownIsReal'
  BY <1>2 DEF IInv, PingedIsAccepted, ShownIsReal
<1>8. MountedIsNotManual' /\ RetryPending'
  BY <1>1, <1>3 DEF IInv, MountedIsNotManual, RetryPending
<1> QED
  BY <1>4, <1>5, <1>6, <1>7, <1>8 DEF IInv

\* The invariant holds in every reachable state.
THEOREM GatewayInvariant == Spec => []IInv
<1>1. Init => IInv
  BY InitIInv
<1>2. IInv /\ [Next]_vars => IInv'
  <2> SUFFICES ASSUME IInv, [Next]_vars PROVE IInv'
    OBVIOUS
  <2>1. CASE UNCHANGED vars
    BY <2>1, StutterStep
  <2>2. ASSUME NEW h \in Hooks,
               \/ Mount(h) \/ Unmount(h)
               \/ Request(h) \/ RequestDone(h) \/ RequestFails(h)
               \/ RetryTimer(h) \/ StrayTimer(h) \/ Tick(h)
        PROVE  IInv'
    BY <2>2, MountStep, UnmountStep, RequestSteps, ConnectSteps, TickStep
  <2>3. ASSUME NEW s \in Sockets,
               \/ Opened(s) \/ Challenge(s)
               \/ Accepted(s) \/ Refused(s) \/ RefusedForGood(s)
               \/ \E ok \in BOOLEAN : PingAnswered(s, ok)
               \/ PingUnknown(s)
               \/ PeerCloses(s) \/ LinkDies(s) \/ Closed(s)
        PROVE  IInv'
    BY <2>3, SocketSteps, AcceptedStep, RefusedForGoodStep, PingAnsweredStep,
       PingUnknownStep, ClosedStep
  <2>4. CASE HeaderReconnect
    BY <2>4, HeaderStep
  <2> QED
    BY <2>1, <2>2, <2>3, <2>4 DEF Next
<1> QED
  BY <1>1, <1>2, PTL DEF Spec

\* Refs, sockets and the record of the store keep their types.
THEOREM GatewayTypeCorrect == Spec => []TypeOK
  BY GatewayInvariant, PTL DEF IInv

\* A live socket is always under the control of the hook that opened it.
THEOREM LiveSocketsAreCurrent == Spec => []LiveSocketIsCurrent
  BY GatewayInvariant, PTL DEF IInv

\* The header says Connected only over a socket whose handshake succeeded.
THEOREM ShownIsAlwaysReal == Spec => []ShownIsReal
  BY GatewayInvariant, PTL DEF IInv

\* A lost connection always has a timer to get it back.
THEOREM RetryIsAlwaysPending == Spec => []RetryPending
  BY GatewayInvariant, PTL DEF IInv
=============================================================================
