--------------------------- MODULE DeliveryChains ---------------------------
(***************************************************************************)
(* What webhooks may expect of the events sent to them.  One event and one *)
(* webhook make a chain of calls: a first call, and after each failure at  *)
(* most one further call, up to a limit.  A chain may be dropped at any    *)
(* time (the webhook is deleted, the server restarts).  Chains are         *)
(* independent: any number of them may move in a step.                     *)
(***************************************************************************)
EXTENDS Naturals

CONSTANTS
    Chains,
    MaxCalls  \* calls in a chain, the first one included

VARIABLES
    phase,    \* "none", "flying", "waiting" for the next call, "over"
    attempt   \* number of the last call, counted from 0

chains == <<phase, attempt>>

Init ==
    /\ phase = [c \in Chains |-> "none"]
    /\ attempt = [c \in Chains |-> 0]

FirstCall(c) == phase[c] = "none" /\ phase'[c] = "flying" /\ attempt'[c] = 0

\* A call failed and is not the last one.
AwaitRetry(c) ==
    /\ phase[c] = "flying"
    /\ attempt[c] + 1 < MaxCalls
    /\ phase'[c] = "waiting"
    /\ attempt'[c] = attempt[c]

NextCall(c) ==
    /\ phase[c] = "waiting"
    /\ phase'[c] = "flying"
    /\ attempt'[c] = attempt[c] + 1

\* Success, the last failure, a drop; or the event is not for this webhook.
Finish(c) == phase'[c] = "over" /\ attempt'[c] = 0

Next ==
    \A c \in Chains :
        \/ FirstCall(c) \/ AwaitRetry(c) \/ NextCall(c) \/ Finish(c)
        \/ phase'[c] = phase[c] /\ attempt'[c] = attempt[c]

Spec == Init /\ [][Next]_chains
=============================================================================
