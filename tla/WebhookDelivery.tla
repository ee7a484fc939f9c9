--------------------------- MODULE WebhookDelivery ---------------------------
(***************************************************************************)
(* Webhooks: src/lib/webhooks.ts, the routes under src/app/api/webhooks    *)
(* and the webhook_retry task of src/lib/scheduler.ts.                     *)
(*                                                                         *)
(* An event is sent to every webhook subscribed to it.  The headers of the *)
(* answer have ten seconds to come, its body has no limit; when all is     *)
(* there, one synchronous block records the delivery, counts failures and  *)
(* schedules a retry or disables the webhook.  A retry pass selects the    *)
(* deliveries that are due, clears their retry times and then sends them   *)
(* one after the other, working from what it has read at its start.        *)
(* Passes are started by the scheduler tick, which does not start a second *)
(* one and obeys a setting, and by hand, at any time.                      *)
(***************************************************************************)
EXTENDS Naturals, FiniteSets

CONSTANTS
    Hooks,         \* webhooks that may come to exist
    ManualPasses,  \* retry passes started by POST /api/scheduler
    Tick,          \* the retry pass of the scheduler tick
    NoPass,        \* a call no pass waits for
    MaxRetries,    \* MC_WEBHOOK_MAX_RETRIES
    Keep,          \* deliveries kept of a webhook (200)
    MaxEvents,     \* bound: events fired in a behaviour
    MaxManual,     \* bound: manual retries and test calls in a behaviour
    MaxCrashes     \* bound: restarts of the server in a behaviour

Passes == ManualPasses \cup {Tick}
Events == 1..MaxEvents
Test == 0  \* the event of a test call
MaxRows == Cardinality(Hooks) * MaxEvents * MaxRetries + MaxManual

ASSUME WebhookAssumption ==
    /\ IsFiniteSet(Hooks)
    /\ Tick \notin ManualPasses
    /\ NoPass \notin Passes
    /\ MaxRetries \in Nat \ {0}
    /\ Keep \in Nat \ {0}
    /\ MaxEvents \in Nat
    /\ MaxManual \in Nat
    /\ MaxCrashes \in Nat

VARIABLES
    hook,     \* the webhooks table
    rows,     \* the webhook_deliveries table
    lastId,   \* id of the last delivery
    calls,    \* HTTP calls in flight
    reading,  \* those of them whose headers have come: no timer runs for them
    pass,     \* retry passes under way
    retryEnabled,  \* the setting webhooks.retry_enabled
    fired,    \* events fired
    manual,   \* manual calls made
    crashes

vars == <<hook, rows, lastId, calls, reading, pass, retryEnabled, fired, manual, crashes>>

Hook == [status : {"absent", "present", "deleted"}, enabled : BOOLEAN,
         failures : 0..MaxRows]  \* consecutive_failures

\* Manual retries count attempts on; bound: up to MaxRetries.
Attempt == 0..MaxRetries

\* auto: allowRetry, the delivery counts and is retried.  retry: next_retry_at
\* is set.  The payload is the event.
Row == [id : 1..MaxRows, event : Events \cup {Test}, hook : Hooks,
        attempt : Attempt, auto : BOOLEAN, ok : BOOLEAN, retry : BOOLEAN]

Call == [event : Events \cup {Test}, hook : Hooks, attempt : Attempt,
         auto : BOOLEAN, pass : Passes \cup {NoPass}]

\* todo: the selected deliveries that have not been sent again yet.
Pass == [busy : BOOLEAN, todo : SUBSET Row]
Idle == [busy |-> FALSE, todo |-> {}]

TypeOK ==
    /\ hook \in [Hooks -> Hook]
    /\ rows \subseteq Row
    /\ lastId \in 0..MaxRows
    /\ calls \subseteq Call
    /\ reading \subseteq calls
    /\ pass \in [Passes -> Pass]
    /\ retryEnabled \in BOOLEAN
    /\ fired \in 0..MaxEvents
    /\ manual \in 0..MaxManual
    /\ crashes \in 0..MaxCrashes

Init ==
    /\ hook = [w \in Hooks |-> [status |-> "absent", enabled |-> FALSE, failures |-> 0]]
    /\ rows = {}
    /\ lastId = 0
    /\ calls = {}
    /\ reading = {}
    /\ pass = [p \in Passes |-> Idle]
    /\ retryEnabled = TRUE
    /\ fired = 0
    /\ manual = 0
    /\ crashes = 0

Enabled(w) == hook[w].status = "present" /\ hook[w].enabled

---------------------------------------------------------------------------
(* Administration: POST, PUT and DELETE /api/webhooks *)

CreateWebhook(w) ==
    /\ hook[w].status = "absent"
    /\ hook' = [hook EXCEPT ![w] = [status |-> "present", enabled |-> TRUE, failures |-> 0]]
    /\ UNCHANGED <<rows, lastId, calls, reading, pass, retryEnabled, fired, manual, crashes>>

\* The failure count survives a webhook's being switched off and on again,
\* unless the circuit is reset.
UpdateWebhook(w, enabled, resetCircuit) ==
    /\ hook[w].status = "present"
    /\ hook' = [hook EXCEPT ![w].enabled = enabled \/ resetCircuit,
                            ![w].failures = IF resetCircuit THEN 0 ELSE @]
    /\ UNCHANGED <<rows, lastId, calls, reading, pass, retryEnabled, fired, manual, crashes>>

DeleteWebhook(w) ==
    /\ hook[w].status = "present"
    /\ hook' = [hook EXCEPT ![w] = [status |-> "deleted", enabled |-> FALSE, failures |-> 0]]
    /\ rows' = {r \in rows : r.hook # w}
    /\ UNCHANGED <<lastId, calls, reading, pass, retryEnabled, fired, manual, crashes>>

\* PUT and DELETE /api/settings
SetRetryEnabled(on) ==
    /\ retryEnabled' = on
    /\ UNCHANGED <<hook, rows, lastId, calls, reading, pass, fired, manual, crashes>>

---------------------------------------------------------------------------
(* Calls *)

\* fireWebhooks: the webhooks S are those subscribed to the event.
Fire(S) ==
    /\ fired < MaxEvents
    /\ S # {}
    /\ \A w \in S : Enabled(w)
    /\ fired' = fired + 1
    /\ calls' = calls \cup {[event |-> fired + 1, hook |-> w, attempt |-> 0,
                             auto |-> TRUE, pass |-> NoPass] : w \in S}
    /\ UNCHANGED <<hook, rows, lastId, reading, pass, retryEnabled, manual, crashes>>

\* POST /api/webhooks/retry; the webhook may be disabled.  Bound: one manual
\* retry of a delivery at a time.
ManualRetry(r) ==
    /\ manual < MaxManual
    /\ manual' = manual + 1
    /\ r \in rows
    /\ r.attempt < MaxRetries
    /\ LET call == [event |-> r.event, hook |-> r.hook, attempt |-> r.attempt + 1,
                    auto |-> FALSE, pass |-> NoPass]
       IN  call \notin calls /\ calls' = calls \cup {call}
    /\ UNCHANGED <<hook, rows, lastId, reading, pass, retryEnabled, fired, crashes>>

\* POST /api/webhooks/test.
TestCall(w) ==
    /\ manual < MaxManual
    /\ manual' = manual + 1
    /\ hook[w].status = "present"
    /\ LET call == [event |-> Test, hook |-> w, attempt |-> 0,
                    auto |-> FALSE, pass |-> NoPass]
       IN  call \notin calls /\ calls' = calls \cup {call}
    /\ UNCHANGED <<hook, rows, lastId, reading, pass, retryEnabled, fired, crashes>>

ResendSameNumber(r, p) ==  \* mutant: attempts are not counted on
    [event |-> r.event, hook |-> r.hook, attempt |-> r.attempt, auto |-> TRUE, pass |-> p]

Resend(r, p) == [event |-> r.event, hook |-> r.hook, attempt |-> r.attempt + 1,
                 auto |-> TRUE, pass |-> p]

\* The deliveries of a webhook that stay: the newest ones.
Prune(S, w) ==
    {r \in S : r.hook = w => Cardinality({s \in S : s.hook = w /\ s.id > r.id}) < Keep}

MoreForever(c) == TRUE  \* mutant: no limit

\* Is a failed call retried?
More(c) == c.attempt < MaxRetries - 1

\* consecutive_failures after the call; manual calls do not count.
Failures(c, ok) ==
    CASE ~c.auto      -> hook[c.hook].failures
      [] c.auto /\ ok -> 0
      [] OTHER        -> hook[c.hook].failures + 1

\* What deliverWebhook writes once a call has its answer.  A webhook that was
\* deleted meanwhile makes the INSERT fail, and nothing is written.
Record(c, ok) ==
    IF hook[c.hook].status # "present"
    THEN UNCHANGED <<hook, rows, lastId>>
    ELSE LET failed == c.auto /\ ~ok
             trip == failed /\ ~More(c) /\ Failures(c, ok) >= MaxRetries
             row == [id |-> lastId + 1, event |-> c.event, hook |-> c.hook,
                     attempt |-> c.attempt, auto |-> c.auto, ok |-> ok,
                     retry |-> failed /\ More(c)]
         IN  /\ hook' = [hook EXCEPT ![c.hook].failures = Failures(c, ok),
                                     ![c.hook].enabled = @ /\ ~trip]
             /\ rows' = Prune(rows \cup {row}, c.hook)
             /\ lastId' = lastId + 1

ContinueStaysBusy(c) ==  \* mutant: a pass that is through is not marked so
    LET p == c.pass
    IN  IF p = NoPass \/ pass[p].todo = {}
        THEN calls' = calls \ {c} /\ UNCHANGED pass
        ELSE \E r \in pass[p].todo :
               /\ calls' = (calls \ {c}) \cup {Resend(r, p)}
               /\ pass' = [pass EXCEPT ![p].todo = @ \ {r}]

\* The pass that waited for the call goes on with what it has left.
Continue(c) ==
    LET p == c.pass
    IN  IF p = NoPass
        THEN calls' = calls \ {c} /\ UNCHANGED pass
        ELSE IF pass[p].todo = {}
        THEN calls' = calls \ {c} /\ pass' = [pass EXCEPT ![p] = Idle]
        ELSE \E r \in pass[p].todo :
               /\ calls' = (calls \ {c}) \cup {Resend(r, p)}
               /\ pass' = [pass EXCEPT ![p].todo = @ \ {r}]

\* The headers of the answer clear the timer.
HeadersCome(c) ==
    /\ c \in calls \ reading
    /\ reading' = reading \cup {c}
    /\ UNCHANGED <<hook, rows, lastId, calls, pass, retryEnabled, fired, manual, crashes>>

\* The whole answer, an error, or the abort ten seconds after the call.
Answer(c, ok) ==
    /\ c \in calls
    /\ Record(c, ok)
    /\ Continue(c)
    /\ reading' = reading \ {c}
    /\ UNCHANGED <<retryEnabled, fired, manual, crashes>>

---------------------------------------------------------------------------
(* processWebhookRetries *)

\* The tick asks for the setting, a pass started by hand does not.
MayStart(p) == ~pass[p].busy /\ (p = Tick => retryEnabled)

StartPassKeepsTimes(p, batch) ==  \* mutant: retry times are cleared later
    /\ MayStart(p)
    /\ batch # {}
    /\ \A r \in batch : r \in rows /\ r.retry /\ Enabled(r.hook)
    /\ \E r \in batch :
         /\ calls' = calls \cup {Resend(r, p)}
         /\ pass' = [pass EXCEPT ![p] = [busy |-> TRUE, todo |-> batch \ {r}]]
    /\ UNCHANGED <<hook, rows, lastId, reading, retryEnabled, fired, manual, crashes>>

\* A pass selects deliveries that are due, of enabled webhooks, fifty of them
\* at most and in any order, and clears their retry times at once.
StartPass(p, batch) ==
    /\ MayStart(p)
    /\ batch # {}
    /\ \A r \in batch : r \in rows /\ r.retry /\ Enabled(r.hook)
    /\ rows' = {[r EXCEPT !.retry = @ /\ r \notin batch] : r \in rows}
    /\ \E r \in batch :
         /\ calls' = calls \cup {Resend(r, p)}
         /\ pass' = [pass EXCEPT ![p] = [busy |-> TRUE, todo |-> batch \ {r}]]
    /\ UNCHANGED <<hook, lastId, reading, retryEnabled, fired, manual, crashes>>

\* A restart: calls and passes are forgotten.
Crash ==
    /\ crashes < MaxCrashes
    /\ crashes' = crashes + 1
    /\ calls' = {}
    /\ reading' = {}
    /\ pass' = [p \in Passes |-> Idle]
    /\ UNCHANGED <<hook, rows, lastId, retryEnabled, fired, manual>>

---------------------------------------------------------------------------
Next ==
    \/ \E w \in Hooks :
         \/ CreateWebhook(w)
         \/ \E enabled, resetCircuit \in BOOLEAN : UpdateWebhook(w, enabled, resetCircuit)
         \/ DeleteWebhook(w)
         \/ TestCall(w)
    \/ \E S \in SUBSET Hooks : Fire(S)
    \/ \E r \in rows : ManualRetry(r)
    \/ \E on \in BOOLEAN : SetRetryEnabled(on)
    \/ \E c \in calls : HeadersCome(c) \/ \E ok \in BOOLEAN : Answer(c, ok)
    \/ \E p \in Passes, batch \in SUBSET rows : StartPass(p, batch)
    \/ Crash

Spec == Init /\ [][Next]_vars

\* The timer ends a call whose headers do not come; nothing ends a body that
\* does not.  The scheduler ticks for ever and a delivery that is due stays due,
\* so it is in one of the selections.
FairSpec ==
    /\ Spec
    /\ \A e \in Events, w \in Hooks :
         WF_vars(\E c \in calls \ reading :
                    /\ c.event = e /\ c.hook = w
                    /\ HeadersCome(c) \/ \E ok \in BOOLEAN : Answer(c, ok))
    /\ \A i \in 1..MaxRows :
         SF_vars(\E batch \in SUBSET rows :
                    (\E r \in batch : r.id = i) /\ StartPass(Tick, batch))

---------------------------------------------------------------------------
(* Properties *)

\* The live part of the chain of calls for event e and webhook w: its retry
\* waits in the table or in a pass, or its call is in flight.
Waiting(e, w) ==
    {r \in rows \cup UNION {pass[p].todo : p \in Passes} :
        /\ r.event = e /\ r.hook = w /\ r.auto
        /\ r.retry \/ \E p \in Passes : r \in pass[p].todo}
Flying(e, w) == {c \in calls : c.event = e /\ c.hook = w /\ c.auto}

\* "Clear next_retry_at immediately to prevent double-processing": however
\* many passes overlap, a delivery is never retried twice.
OneLiveCallPerChain ==
    \A e \in Events, w \in Hooks : Cardinality(Waiting(e, w)) + Cardinality(Flying(e, w)) <= 1

\* What the calls look like from the chain's side.
Phase(e, w) ==
    CASE Flying(e, w) # {}  -> "flying"
      [] Flying(e, w) = {} /\ Waiting(e, w) # {} -> "waiting"
      [] OTHER -> IF e <= fired THEN "over" ELSE "none"

LastAttempt(e, w) ==
    LET live == {x.attempt : x \in Flying(e, w) \cup Waiting(e, w)}
    IN  IF live = {} THEN 0 ELSE CHOOSE n \in live : TRUE

Promised == INSTANCE DeliveryChains WITH
    Chains   <- Events \X Hooks,
    MaxCalls <- MaxRetries + 1,
    phase    <- [c \in Events \X Hooks |-> Phase(c[1], c[2])],
    attempt  <- [c \in Events \X Hooks |-> LastAttempt(c[1], c[2])]

\* Answers, overlapping passes, restarts and deletions together make every
\* event a chain of calls as DeliveryChains promises it: one call at a time,
\* numbered one after the other, none after the last, none once it is over.  The
\* last is the one docs/webhooks.md allows, the retry with number MaxRetries;
\* BreakerAfterAllRetries is about the code's stopping before it.
ImplementsChains == Promised!Spec

\* "If a webhook fails on all 5 retry attempts, the circuit breaker trips": the
\* call whose failure disables the webhook is the retry with the last number.
BreakerAfterAllRetries ==
    [][\A c \in calls \ calls' :
         (/\ Enabled(c.hook)
          /\ hook'[c.hook].status = "present" /\ ~hook'[c.hook].enabled)
            => c.attempt = MaxRetries]_vars

\* A body that does not end keeps the chain: its call, or the pass it has to wait
\* for.
Held(e, w) ==
    \E c \in reading :
        \/ c.pass = Tick
        \/ c.auto /\ c.event = e /\ c.hook = w
        \/ c.pass # NoPass /\ \E r \in pass[c.pass].todo : r.event = e /\ r.hook = w

\* A chain of calls comes to its end unless its webhook is switched off, as long
\* as no body keeps it for ever and retries stay switched on in the end.
ChainsEnd ==
    \A e \in Events, w \in Hooks :
        []<>~Held(e, w) /\ <>[]retryEnabled =>
            (Phase(e, w) \in {"flying", "waiting"} ~> Phase(e, w) = "over" \/ ~Enabled(w))

=============================================================================
