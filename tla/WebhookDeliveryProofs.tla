----------------------- MODULE WebhookDeliveryProofs -----------------------
(***************************************************************************)
(* Proofs about WebhookDelivery, for any webhooks, passes and limits: what *)
(* is kept of deliveries has its type, a chain of calls is in one place at *)
(* a time, and the calls are those that DeliveryChains promises.           *)
(***************************************************************************)
EXTENDS WebhookDelivery, FiniteSetTheorems, TLAPS

---------------------------------------------------------------------------
(* The inductive invariant *)

\* Only failed calls that count and are not the last ones are retried; a chain
\* is of an event that was fired.
RetriesAreDue ==
    /\ \A r \in rows :
         /\ r.auto => r.event \in 1..fired
         /\ r.retry => r.auto /\ r.attempt + 1 < MaxRetries
    /\ \A p \in Passes : \A r \in pass[p].todo :
         r.retry /\ r.auto /\ r.event \in 1..fired /\ r.attempt + 1 < MaxRetries

CallsAreDue ==
    \A c \in calls :
        /\ c.auto => c.event \in 1..fired /\ c.attempt < MaxRetries
        /\ c.pass # NoPass => c.auto

\* A chain has one call, or one delivery that waits.
OneOfAChain ==
    \A e \in Events, w \in Hooks :
        /\ \A r, s \in Waiting(e, w) : r = s
        /\ \A c, d \in Flying(e, w) : c = d
        /\ Waiting(e, w) = {} \/ Flying(e, w) = {}

\* A delivery waits in the table or in one pass.
OnePlace ==
    \A p \in Passes : \A r \in pass[p].todo :
        r \notin rows /\ \A q \in Passes \ {p} : r \notin pass[q].todo

FailuresCounted == \A w \in Hooks : hook[w].failures <= lastId

\* The calls that chains may still make
Places == (Events \X Hooks) \X (0..MaxRetries - 1)
Ahead ==
    {x \in Places :
        \/ x[1][1] > fired
        \/ \E c \in Flying(x[1][1], x[1][2]) : c.attempt <= x[2]
        \/ \E r \in Waiting(x[1][1], x[1][2]) : r.attempt < x[2]}
ManualCalls == {c \in calls : ~c.auto}

\* A delivery is recorded for a call only, and a chain makes no call twice.
IdsSuffice ==
    /\ IsFiniteSet(ManualCalls)
    /\ lastId + Cardinality(Ahead) + Cardinality(ManualCalls) + (MaxManual - manual) <= MaxRows

IInv ==
    /\ TypeOK /\ RetriesAreDue /\ CallsAreDue /\ OneOfAChain /\ OnePlace
    /\ FailuresCounted /\ IdsSuffice

\* What a step may do with the chain of event e and webhook w
Moves(e, w) ==
    /\ \A c \in Flying(e, w)' :
         \/ c \in Flying(e, w)
         \/ e > fired /\ c.attempt = 0
         \/ \E r \in Waiting(e, w) : c.attempt = r.attempt + 1
    /\ \A r \in Waiting(e, w)' :
         \/ r \in Waiting(e, w)
         \/ \E c \in Flying(e, w) : c.attempt = r.attempt /\ c.attempt + 1 < MaxRetries

ChainsMove == fired <= fired' /\ \A e \in Events, w \in Hooks : Moves(e, w)

---------------------------------------------------------------------------
(* Chains *)

Due(r) == (r \in rows /\ r.retry) \/ \E p \in Passes : r \in pass[p].todo

LEMMA WaitingIs ==
    \A e, w, r : r \in Waiting(e, w) <=> Due(r) /\ r.event = e /\ r.hook = w /\ r.auto
BY DEF Waiting, Due

LEMMA WaitingBecomes ==
    \A e, w, r : r \in Waiting(e, w)' <=> Due(r)' /\ r.event = e /\ r.hook = w /\ r.auto
BY DEF Waiting, Due

\* What waits and what flies is of the types of the tables.
LEMMA LiveTypes ==
    ASSUME TypeOK
    PROVE  /\ \A r : Due(r) => r \in Row
           /\ \A p \in Passes : pass[p].todo \subseteq Row
           /\ \A c \in calls : c \in Call
           /\ \A r \in rows : r \in Row
BY DEF TypeOK, Due, Pass

LEMMA RowFields ==
    ASSUME NEW r \in Row
    PROVE  /\ r.id \in 1..MaxRows /\ r.event \in Events \cup {Test} /\ r.hook \in Hooks
           /\ r.attempt \in Nat /\ r.attempt \in 0..MaxRetries
           /\ r.auto \in BOOLEAN /\ r.ok \in BOOLEAN /\ r.retry \in BOOLEAN
BY WebhookAssumption DEF Row, Attempt

LEMMA CallFields ==
    ASSUME NEW c \in Call
    PROVE  /\ c.event \in Events \cup {Test} /\ c.hook \in Hooks
           /\ c.attempt \in Nat /\ c.attempt \in 0..MaxRetries
           /\ c.auto \in BOOLEAN /\ c.pass \in Passes \cup {NoPass}
BY WebhookAssumption DEF Call, Attempt

LEMMA ResendType ==
    ASSUME NEW r \in Row, NEW p \in Passes, r.attempt + 1 < MaxRetries
    PROVE  /\ Resend(r, p) \in Call
           /\ Resend(r, p).event = r.event /\ Resend(r, p).hook = r.hook
           /\ Resend(r, p).attempt = r.attempt + 1 /\ Resend(r, p).auto
           /\ Resend(r, p).pass = p
<1>1. r.attempt \in 0..MaxRetries /\ r.event \in Events \cup {Test} /\ r.hook \in Hooks
  BY RowFields
<1>2. r.attempt + 1 \in 0..MaxRetries
  BY <1>1, WebhookAssumption
<1>3. QED
  BY <1>1, <1>2 DEF Resend, Call, Attempt

\* The retry time of a delivery that is cleared, or kept
LEMMA Cleared ==
    ASSUME NEW r \in Row, NEW v \in BOOLEAN
    PROVE  /\ [r EXCEPT !.retry = v] \in Row
           /\ [r EXCEPT !.retry = v].retry = v
           /\ [r EXCEPT !.retry = v].event = r.event /\ [r EXCEPT !.retry = v].hook = r.hook
           /\ [r EXCEPT !.retry = v].attempt = r.attempt /\ [r EXCEPT !.retry = v].auto = r.auto
           /\ r.retry = v => [r EXCEPT !.retry = v] = r
BY DEF Row

---------------------------------------------------------------------------
(* Counting deliveries *)

LEMMA MaxRowsType == MaxRows \in Nat
<1>1. Cardinality(Hooks) \in Nat
  BY WebhookAssumption, FS_CardinalityType
<1>2. QED
  BY <1>1, WebhookAssumption DEF MaxRows

LEMMA PlacesFinite ==
    /\ IsFiniteSet(Places)
    /\ Cardinality(Places) = Cardinality(Hooks) * MaxEvents * MaxRetries
<1>1. IsFiniteSet(Events) /\ Cardinality(Events) = MaxEvents
  BY WebhookAssumption, FS_Interval DEF Events
<1>2. IsFiniteSet(0..MaxRetries - 1) /\ Cardinality(0..MaxRetries - 1) = MaxRetries
  BY WebhookAssumption, FS_Interval
<1>3. Cardinality(Hooks) \in Nat
  BY WebhookAssumption, FS_CardinalityType
<1>4. /\ IsFiniteSet(Events \X Hooks)
      /\ Cardinality(Events \X Hooks) = MaxEvents * Cardinality(Hooks)
  BY <1>1, WebhookAssumption, FS_Product
<1>5. /\ IsFiniteSet(Places)
      /\ Cardinality(Places) = (MaxEvents * Cardinality(Hooks)) * MaxRetries
  BY <1>2, <1>4, FS_Product DEF Places
<1>6. (MaxEvents * Cardinality(Hooks)) * MaxRetries = Cardinality(Hooks) * MaxEvents * MaxRetries
  BY <1>3, WebhookAssumption
<1>7. QED
  BY <1>5, <1>6

LEMMA AheadFinite == IsFiniteSet(Ahead) /\ Cardinality(Ahead) \in Nat
<1>1. IsFiniteSet(Ahead)
  BY PlacesFinite, FS_Subset DEF Ahead
<1>2. QED
  BY <1>1, FS_CardinalityType

LEMMA AheadWillBeFinite == IsFiniteSet(Ahead') /\ Cardinality(Ahead') \in Nat
<1>1. IsFiniteSet(Ahead')
  BY PlacesFinite, FS_Subset DEF Ahead, Places, Events
<1>2. QED
  BY <1>1, FS_CardinalityType

\* Chains that move have fewer calls ahead of them.
LEMMA AheadShrinks ==
    ASSUME TypeOK, TypeOK', ChainsMove
    PROVE  Ahead' \subseteq Ahead
<1> SUFFICES ASSUME NEW x \in Ahead' PROVE x \in Ahead
  OBVIOUS
<1> DEFINE e == x[1][1]
<1> DEFINE w == x[1][2]
<1>1. x \in Places /\ e \in Events /\ w \in Hooks /\ x[2] \in Nat /\ e \in Nat
  BY WebhookAssumption DEF Ahead, Places, Events
<1>2. fired \in Nat /\ fired' \in Nat
  BY WebhookAssumption DEF TypeOK
<1>3. Moves(e, w) /\ fired <= fired'
  BY <1>1 DEF ChainsMove
<1>4. CASE e > fired'
  BY <1>1, <1>2, <1>3, <1>4 DEF Ahead
<1>5. CASE \E c \in Flying(e, w)' : c.attempt <= x[2]
  <2>1. PICK c \in Flying(e, w)' : c.attempt <= x[2]
    BY <1>5
  <2>2. CASE \E r \in Waiting(e, w) : c.attempt = r.attempt + 1
    <3>1. PICK r \in Waiting(e, w) : c.attempt = r.attempt + 1
      BY <2>2
    <3>2. r.attempt \in Nat
      BY WaitingIs, LiveTypes, RowFields
    <3>3. r.attempt < x[2]
      BY <1>1, <2>1, <3>1, <3>2
    <3>4. QED
      BY <1>1, <3>3 DEF Ahead
  <2>3. QED
    BY <1>1, <1>3, <2>1, <2>2 DEF Moves, Ahead
<1>6. CASE \E r \in Waiting(e, w)' : r.attempt < x[2]
  <2>1. PICK r \in Waiting(e, w)' : r.attempt < x[2]
    BY <1>6
  <2>2. CASE \E c \in Flying(e, w) : c.attempt = r.attempt
    <3>1. PICK c \in Flying(e, w) : c.attempt = r.attempt
      BY <2>2
    <3>2. c.attempt \in Nat
      BY LiveTypes, CallFields DEF Flying
    <3>3. c.attempt <= x[2]
      BY <1>1, <2>1, <3>1, <3>2
    <3>4. QED
      BY <1>1, <3>3, <3>1 DEF Ahead
  <2>3. QED
    BY <1>1, <1>3, <2>1, <2>2 DEF Moves, Ahead
<1>7. QED
  BY <1>4, <1>5, <1>6 DEF Ahead

LEMMA IdsKept ==
    ASSUME TypeOK, TypeOK', IdsSuffice, ChainsMove,
           ManualCalls' \subseteq ManualCalls, lastId' = lastId, manual' = manual
    PROVE  IdsSuffice'
<1>1. Ahead' \subseteq Ahead
  BY AheadShrinks
<1>2. Cardinality(Ahead') <= Cardinality(Ahead)
  BY <1>1, AheadFinite, FS_Subset
<1>3. /\ IsFiniteSet(ManualCalls') /\ Cardinality(ManualCalls') <= Cardinality(ManualCalls)
      /\ Cardinality(ManualCalls) \in Nat /\ Cardinality(ManualCalls') \in Nat
  BY FS_Subset, FS_CardinalityType DEF IdsSuffice
<1>4. QED
  BY <1>2, <1>3, AheadFinite, AheadWillBeFinite, MaxRowsType, WebhookAssumption
     DEF IdsSuffice, TypeOK, MaxRows

LEMMA Initially == Init => IInv
<1> SUFFICES ASSUME Init PROVE IInv
  OBVIOUS
<1>0. 0 \in 0..MaxRows /\ Idle \in Pass
  BY MaxRowsType DEF Idle, Pass
<1>1. TypeOK
  <2>1. hook \in [Hooks -> Hook]
    BY <1>0 DEF Init, Hook
  <2>2. pass \in [Passes -> Pass]
    BY <1>0 DEF Init
  <2>3. QED
    BY <1>0, <2>1, <2>2, WebhookAssumption DEF Init, TypeOK
<1>2. \A r : ~Due(r)
  BY DEF Init, Due, Idle
<1>3. \A e, w : Waiting(e, w) = {} /\ Flying(e, w) = {}
  BY <1>2, WaitingIs DEF Init, Flying
<1>4. RetriesAreDue /\ CallsAreDue /\ OneOfAChain /\ OnePlace
  BY <1>3 DEF Init, Idle, RetriesAreDue, CallsAreDue, OneOfAChain, OnePlace
<1>5. FailuresCounted
  BY DEF Init, FailuresCounted
<1>6. IdsSuffice
  <2>1. ManualCalls = {}
    BY DEF Init, ManualCalls
  <2>2. IsFiniteSet(ManualCalls) /\ Cardinality(ManualCalls) = 0
    BY <2>1, FS_EmptySet
  <2>3. Cardinality(Ahead) <= Cardinality(Places)
    BY PlacesFinite, FS_Subset DEF Ahead
  <2>4. Cardinality(Places) \in Nat
    BY PlacesFinite, FS_CardinalityType
  <2>5. Cardinality(Ahead) <= Cardinality(Hooks) * MaxEvents * MaxRetries
    BY <2>3, PlacesFinite
  <2>6. Cardinality(Hooks) * MaxEvents * MaxRetries \in Nat
    BY <2>4, PlacesFinite
  <2>7. QED
    BY <2>2, <2>5, <2>6, AheadFinite, WebhookAssumption DEF Init, IdsSuffice, MaxRows
<1>7. QED
  BY <1>1, <1>4, <1>5, <1>6 DEF IInv

---------------------------------------------------------------------------
(* Steps *)

\* Calls are forgotten, deliveries deleted.
LEMMA FewerSafe ==
    ASSUME IInv, TypeOK',
           rows' \subseteq rows, calls' \subseteq calls,
           \A p \in Passes : pass'[p].todo \subseteq pass[p].todo,
           UNCHANGED <<lastId, fired, manual>>,
           FailuresCounted'
    PROVE  IInv' /\ ChainsMove
<1> USE DEF IInv
<1>1. \A r : Due(r)' => Due(r)
  BY DEF Due
<1>2. \A e, w : Waiting(e, w)' \subseteq Waiting(e, w)
  BY <1>1, WaitingIs, WaitingBecomes
<1>3. \A e, w : Flying(e, w)' \subseteq Flying(e, w)
  BY DEF Flying
<1>4. ChainsMove
  BY <1>2, <1>3, WebhookAssumption DEF ChainsMove, Moves, TypeOK
<1>5. RetriesAreDue' /\ CallsAreDue' /\ OnePlace'
  BY DEF RetriesAreDue, CallsAreDue, OnePlace
<1>6. OneOfAChain'
  BY <1>2, <1>3 DEF OneOfAChain
<1>7. ManualCalls' \subseteq ManualCalls
  BY DEF ManualCalls
<1>8. IdsSuffice'
  BY <1>4, <1>7, IdsKept
<1>9. QED
  BY <1>4, <1>5, <1>6, <1>8

LEMMA CreateSafe ==
    ASSUME IInv, NEW w \in Hooks, CreateWebhook(w)
    PROVE  IInv' /\ ChainsMove
<1> USE DEF IInv, CreateWebhook
<1>1. lastId \in Nat /\ 0 \in 0..MaxRows
  BY MaxRowsType DEF TypeOK
<1>2. hook' \in [Hooks -> Hook]
  BY <1>1 DEF TypeOK, Hook
<1>3. TypeOK'
  BY <1>2 DEF TypeOK
<1>4. FailuresCounted'
  BY <1>1 DEF FailuresCounted, TypeOK
<1>5. QED
  BY <1>3, <1>4, FewerSafe

LEMMA UpdateSafe ==
    ASSUME IInv, NEW w \in Hooks, NEW enabled \in BOOLEAN, NEW resetCircuit \in BOOLEAN,
           UpdateWebhook(w, enabled, resetCircuit)
    PROVE  IInv' /\ ChainsMove
<1> USE DEF IInv, UpdateWebhook
<1>1. lastId \in Nat /\ 0 \in 0..MaxRows
  BY MaxRowsType DEF TypeOK
<1> DEFINE new == [hook[w] EXCEPT !.enabled = enabled \/ resetCircuit,
                                  !.failures = IF resetCircuit THEN 0 ELSE hook[w].failures]
<1>2. /\ hook[w] \in Hook
      /\ hook' = [hook EXCEPT ![w] = new]
  BY DEF TypeOK
<1>3. (enabled \/ resetCircuit) \in BOOLEAN
  OBVIOUS
<1>4. new \in Hook /\ (new.failures = 0 \/ new.failures = hook[w].failures)
  BY <1>1, <1>2, <1>3 DEF Hook
<1> HIDE DEF new
<1>5. TypeOK'
  BY <1>2, <1>4 DEF TypeOK
<1>6. FailuresCounted'
  BY <1>1, <1>2, <1>4 DEF FailuresCounted, TypeOK
<1>7. QED
  BY <1>5, <1>6, FewerSafe

LEMMA DeleteSafe ==
    ASSUME IInv, NEW w \in Hooks, DeleteWebhook(w)
    PROVE  IInv' /\ ChainsMove
<1> USE DEF IInv, DeleteWebhook
<1>1. lastId \in Nat /\ 0 \in 0..MaxRows
  BY MaxRowsType DEF TypeOK
<1>2. hook' \in [Hooks -> Hook]
  BY <1>1 DEF TypeOK, Hook
<1>3. TypeOK'
  BY <1>2 DEF TypeOK
<1>4. FailuresCounted'
  BY <1>1 DEF FailuresCounted, TypeOK
<1>5. QED
  BY <1>3, <1>4, FewerSafe

LEMMA CrashSafe ==
    ASSUME IInv, Crash
    PROVE  IInv' /\ ChainsMove
<1> USE DEF IInv, Crash
<1>1. Idle \in Pass /\ \A p \in Passes : pass'[p] = Idle
  BY DEF Idle, Pass
<1>2. TypeOK'
  BY <1>1, WebhookAssumption DEF TypeOK
<1>3. FailuresCounted' /\ \A p \in Passes : pass'[p].todo \subseteq pass[p].todo
  BY <1>1 DEF FailuresCounted, Idle
<1>4. QED
  BY <1>2, <1>3, FewerSafe

\* A manual retry and a test call are of no chain.
LEMMA ManualSafe ==
    ASSUME IInv, NEW call \in Call, ~call.auto, call.pass = NoPass,
           call \notin calls, calls' = calls \cup {call},
           manual < MaxManual, manual' = manual + 1,
           UNCHANGED <<hook, rows, lastId, reading, pass, retryEnabled, fired, crashes>>
    PROVE  IInv' /\ ChainsMove
<1> USE DEF IInv
<1>1. TypeOK'
  BY WebhookAssumption DEF TypeOK
<1>2. \A e, w : Waiting(e, w)' = Waiting(e, w) /\ Flying(e, w)' = Flying(e, w)
  BY DEF Waiting, Flying
<1>3. ChainsMove
  BY <1>2, WebhookAssumption DEF ChainsMove, Moves, TypeOK
<1>4. RetriesAreDue' /\ CallsAreDue' /\ OneOfAChain' /\ OnePlace' /\ FailuresCounted'
  BY <1>2 DEF RetriesAreDue, CallsAreDue, OneOfAChain, OnePlace, FailuresCounted
<1>5. IdsSuffice'
  <2>1. ManualCalls' = ManualCalls \cup {call} /\ call \notin ManualCalls
    BY DEF ManualCalls
  <2>2. /\ IsFiniteSet(ManualCalls') /\ Cardinality(ManualCalls) \in Nat
        /\ Cardinality(ManualCalls') = Cardinality(ManualCalls) + 1
    BY <2>1, FS_AddElement, FS_CardinalityType DEF IdsSuffice
  <2>3. Cardinality(Ahead') <= Cardinality(Ahead)
    BY <1>1, <1>3, AheadShrinks, AheadFinite, FS_Subset
  <2>4. QED
    BY <2>2, <2>3, AheadFinite, AheadWillBeFinite, MaxRowsType, WebhookAssumption
       DEF IdsSuffice, TypeOK
<1>6. QED
  BY <1>1, <1>3, <1>4, <1>5

LEMMA ManualRetrySafe ==
    ASSUME IInv, NEW r, ManualRetry(r)
    PROVE  IInv' /\ ChainsMove
<1> DEFINE call == [event |-> r.event, hook |-> r.hook, attempt |-> r.attempt + 1,
                    auto |-> FALSE, pass |-> NoPass]
<1>1. r \in Row /\ r.attempt < MaxRetries
  BY LiveTypes DEF IInv, ManualRetry
<1>2. r.attempt + 1 \in 0..MaxRetries
  BY <1>1, RowFields, WebhookAssumption
<1>3. call \in Call
  BY <1>1, <1>2, RowFields DEF Call, Attempt
<1>4. QED
  BY <1>3, ManualSafe DEF ManualRetry

LEMMA TestCallSafe ==
    ASSUME IInv, NEW w \in Hooks, TestCall(w)
    PROVE  IInv' /\ ChainsMove
<1> DEFINE call == [event |-> Test, hook |-> w, attempt |-> 0, auto |-> FALSE, pass |-> NoPass]
<1>1. call \in Call
  BY WebhookAssumption DEF Call, Attempt
<1>2. QED
  BY <1>1, ManualSafe DEF TestCall

LEMMA FireSafe ==
    ASSUME IInv, NEW S \in SUBSET Hooks, Fire(S)
    PROVE  IInv' /\ ChainsMove
<1> USE DEF IInv
<1> DEFINE first(w) == [event |-> fired + 1, hook |-> w, attempt |-> 0,
                        auto |-> TRUE, pass |-> NoPass]
<1>1. /\ fired \in Nat /\ fired + 1 \in Events /\ fired' = fired + 1
      /\ fired' \in 0..MaxEvents
      /\ UNCHANGED <<hook, rows, lastId, reading, pass, retryEnabled, manual, crashes>>
      /\ calls' = calls \cup {first(w) : w \in S}
  BY WebhookAssumption DEF Fire, TypeOK, Events
<1>2. \A w \in S : first(w) \in Call
  BY <1>1, WebhookAssumption DEF Call, Attempt
<1>3. TypeOK'
  BY <1>1, <1>2 DEF TypeOK
<1>4. \A e \in Events : \A w : Waiting(e, w)' = Waiting(e, w)
  BY <1>1 DEF Waiting
<1>5. ASSUME NEW e \in Events, NEW w
      PROVE  /\ \A c \in Flying(e, w)' : c \in Flying(e, w) \/ (e = fired + 1 /\ c = first(w))
             /\ e = fired + 1 => Flying(e, w) = {} /\ Waiting(e, w) = {}
  <2>1. \A c \in Flying(e, w)' : c \in Flying(e, w) \/ (e = fired + 1 /\ c = first(w))
    BY <1>1 DEF Flying
  <2>2. \A c \in Flying(e, w) : e \in 1..fired
    BY DEF Flying, CallsAreDue
  <2>3. \A r \in Waiting(e, w) : e \in 1..fired
    BY WaitingIs DEF Due, RetriesAreDue
  <2>4. fired + 1 \notin 1..fired
    BY <1>1
  <2>5. QED
    BY <2>1, <2>2, <2>3, <2>4
<1>6. ChainsMove
  BY <1>1, <1>4, <1>5 DEF ChainsMove, Moves
<1>7. 1..fired \subseteq 1..fired'
  BY <1>1
<1>8. RetriesAreDue'
  BY <1>1, <1>7 DEF RetriesAreDue
<1>9. CallsAreDue'
  BY <1>1, <1>7, WebhookAssumption DEF CallsAreDue
<1>10. OneOfAChain'
  <2> SUFFICES ASSUME NEW e \in Events, NEW w \in Hooks PROVE OneOfAChain!(e, w)'
    BY DEF OneOfAChain
  <2>1. CASE e = fired + 1
    BY <2>1, <1>4, <1>5
  <2>2. CASE e # fired + 1
    <3>1. \A c \in Flying(e, w)' : c \in Flying(e, w)
      BY <2>2, <1>5
    <3>2. QED
      BY <3>1, <1>4 DEF OneOfAChain
  <2>3. QED
    BY <2>1, <2>2
<1>11. OnePlace' /\ FailuresCounted'
  BY <1>1 DEF OnePlace, FailuresCounted
<1>12. ManualCalls' \subseteq ManualCalls
  BY <1>1 DEF ManualCalls
<1>13. IdsSuffice'
  BY <1>1, <1>3, <1>6, <1>12, IdsKept
<1>14. QED
  BY <1>3, <1>6, <1>8, <1>9, <1>10, <1>11, <1>13

LEMMA StartPassSafe ==
    ASSUME IInv, NEW p \in Passes, NEW batch \in SUBSET rows, StartPass(p, batch)
    PROVE  IInv' /\ ChainsMove
<1> USE DEF IInv
<1> PICK b \in batch : /\ calls' = calls \cup {Resend(b, p)}
                       /\ pass' = [pass EXCEPT ![p] = [busy |-> TRUE, todo |-> batch \ {b}]]
  BY DEF StartPass
<1> DEFINE cleared(r) == [r EXCEPT !.retry = r.retry /\ r \notin batch]
<1>1. /\ \A r \in batch : r \in rows /\ r.retry
      /\ rows' = {cleared(r) : r \in rows}
      /\ UNCHANGED <<hook, lastId, reading, retryEnabled, fired, manual, crashes>>
  BY DEF StartPass
<1>2. \A r \in rows : r \in Row
  BY LiveTypes
<1>3. \A r \in rows : /\ cleared(r) \in Row
                      /\ cleared(r).event = r.event /\ cleared(r).hook = r.hook
                      /\ cleared(r).auto = r.auto /\ cleared(r).attempt = r.attempt
                      /\ cleared(r).retry => r.retry /\ r \notin batch /\ cleared(r) = r
  <2> SUFFICES ASSUME NEW r \in rows PROVE <1>3!(r)
    OBVIOUS
  <2> DEFINE v == r.retry /\ r \notin batch
  <2>1. r \in Row /\ r.retry \in BOOLEAN /\ v \in BOOLEAN
    BY <1>2, RowFields
  <2>2. cleared(r) = [r EXCEPT !.retry = v]
    OBVIOUS
  <2>3. v => r.retry = v
    BY <2>1
  <2> HIDE DEF v
  <2>4. /\ cleared(r) \in Row /\ cleared(r).retry = v
        /\ cleared(r).event = r.event /\ cleared(r).hook = r.hook
        /\ cleared(r).auto = r.auto /\ cleared(r).attempt = r.attempt
        /\ r.retry = v => cleared(r) = r
    <3> HIDE DEF cleared
    <3>1. QED
      BY <2>1, <2>2, Cleared
  <2>5. QED
    BY <2>3, <2>4 DEF v
<1> HIDE DEF cleared
<1>4. \A r \in rows' : r.retry => r \in rows /\ r \notin batch
  BY <1>1, <1>3
<1>5. /\ b.auto /\ b.retry /\ b.attempt + 1 < MaxRetries /\ b.event \in 1..fired /\ b \in Row
      /\ b.hook \in Hooks /\ b.event \in Events
  <2>1. b.auto /\ b.retry /\ b.attempt + 1 < MaxRetries /\ b.event \in 1..fired /\ b \in Row
    BY <1>1, <1>2 DEF RetriesAreDue
  <2>2. 1..fired \subseteq Events
    BY WebhookAssumption DEF TypeOK, Events
  <2>3. QED
    BY <2>1, <2>2, RowFields
<1> DEFINE call == Resend(b, p)
<1>6. /\ call \in Call /\ call.event = b.event /\ call.hook = b.hook
      /\ call.attempt = b.attempt + 1 /\ call.auto /\ call.pass = p
  BY <1>5, ResendType
<1> HIDE DEF call
<1>7. calls' = calls \cup {call}
  BY DEF call
<1>8. /\ pass'[p].todo = batch \ {b} /\ pass'[p] \in Pass
      /\ \A q \in Passes \ {p} : pass'[q] = pass[q]
  BY <1>1, <1>2 DEF TypeOK, Pass
<1>9. TypeOK'
  <2>1. rows' \subseteq Row
    BY <1>1, <1>3
  <2>2. pass' \in [Passes -> Pass]
    BY <1>8 DEF TypeOK
  <2>3. QED
    BY <2>1, <2>2, <1>1, <1>6, <1>7 DEF TypeOK
<1>10. \A r \in batch : \A q \in Passes : r \notin pass[q].todo
  BY <1>1 DEF OnePlace
<1>11. \A r : Due(r)' => Due(r) /\ r # b
  <2> SUFFICES ASSUME NEW r, Due(r)' PROVE Due(r) /\ r # b
    OBVIOUS
  <2>1. CASE r \in rows' /\ r.retry
    BY <2>1, <1>4 DEF Due
  <2>2. CASE \E q \in Passes : r \in pass'[q].todo
    <3>1. PICK q \in Passes : r \in pass'[q].todo
      BY <2>2
    <3>2. CASE q = p
      BY <3>1, <3>2, <1>1, <1>8 DEF Due
    <3>3. CASE q # p
      BY <3>1, <3>3, <1>8, <1>10 DEF Due
    <3>4. QED
      BY <3>2, <3>3
  <2>3. QED
    BY <2>1, <2>2 DEF Due
<1>12. b \in Waiting(b.event, b.hook)
  BY <1>1, <1>5, WaitingIs DEF Due
<1>13. \A e, w : Waiting(e, w)' \subseteq Waiting(e, w) \ {b}
  BY <1>11, WaitingIs, WaitingBecomes
<1>14. \A e, w : \A c \in Flying(e, w)' :
         c \in Flying(e, w) \/ (c = call /\ e = b.event /\ w = b.hook)
  BY <1>6, <1>7 DEF Flying
<1>15. Flying(b.event, b.hook) = {}
  BY <1>5, <1>12 DEF OneOfAChain
<1>16. ChainsMove
  <2>1. \A e \in Events, w \in Hooks : Moves(e, w)
    BY <1>6, <1>12, <1>13, <1>14 DEF Moves
  <2>2. QED
    BY <2>1, <1>1, WebhookAssumption DEF ChainsMove, TypeOK
<1>17. RetriesAreDue'
  <2>1. \A r \in rows' : /\ r.auto => r.event \in 1..fired
                         /\ r.retry => r.auto /\ r.attempt + 1 < MaxRetries
    <3> SUFFICES ASSUME NEW r \in rows
                 PROVE  /\ cleared(r).auto => cleared(r).event \in 1..fired
                        /\ cleared(r).retry => cleared(r).auto /\ cleared(r).attempt + 1 < MaxRetries
      BY <1>1
    <3>1. QED
      BY <1>3 DEF RetriesAreDue
  <2>2. \A q \in Passes : \A r \in pass'[q].todo :
          r.retry /\ r.auto /\ r.event \in 1..fired /\ r.attempt + 1 < MaxRetries
    BY <1>1, <1>8 DEF RetriesAreDue
  <2>3. QED
    BY <2>1, <2>2, <1>1 DEF RetriesAreDue
<1>18. CallsAreDue'
  BY <1>1, <1>5, <1>6, <1>7 DEF CallsAreDue
<1>19. OneOfAChain'
  <2> SUFFICES ASSUME NEW e \in Events, NEW w \in Hooks PROVE OneOfAChain!(e, w)'
    BY DEF OneOfAChain
  <2>1. CASE e = b.event /\ w = b.hook
    <3>1. \A r \in Waiting(e, w) : r = b
      BY <2>1, <1>12 DEF OneOfAChain
    <3>2. Waiting(e, w)' = {}
      BY <3>1, <1>13
    <3>3. QED
      BY <2>1, <3>2, <1>14, <1>15
  <2>2. CASE ~(e = b.event /\ w = b.hook)
    <3>1. \A c \in Flying(e, w)' : c \in Flying(e, w)
      BY <2>2, <1>14
    <3>2. QED
      BY <3>1, <1>13 DEF OneOfAChain
  <2>3. QED
    BY <2>1, <2>2
<1>20. OnePlace'
  <2> SUFFICES ASSUME NEW q \in Passes, NEW r \in pass'[q].todo
               PROVE  r \notin rows' /\ \A u \in Passes \ {q} : r \notin pass'[u].todo
    BY DEF OnePlace
  <2>1. CASE q = p
    <3>1. r \in batch /\ r.retry
      BY <2>1, <1>1, <1>8
    <3>2. r \notin rows'
      BY <3>1, <1>4
    <3>3. QED
      BY <2>1, <3>1, <3>2, <1>8, <1>10
  <2>2. CASE q # p
    <3>1. r \in pass[q].todo /\ r.retry
      BY <2>2, <1>8 DEF RetriesAreDue
    <3>2. r \notin rows' /\ r \notin batch
      BY <3>1, <1>1, <1>4 DEF OnePlace
    <3>3. QED
      BY <2>2, <3>1, <3>2, <1>8 DEF OnePlace
  <2>3. QED
    BY <2>1, <2>2
<1>21. FailuresCounted'
  BY <1>1 DEF FailuresCounted
<1>22. ManualCalls' \subseteq ManualCalls
  BY <1>6, <1>7 DEF ManualCalls
<1>23. IdsSuffice'
  BY <1>1, <1>9, <1>16, <1>22, IdsKept
<1>24. QED
  BY <1>9, <1>16, <1>17, <1>18, <1>19, <1>20, <1>21, <1>23

---------------------------------------------------------------------------
(* Answers *)

\* A call that is under way has a delivery to come.
LEMMA RoomForRow ==
    ASSUME IInv, NEW c \in calls
    PROVE  lastId + 1 \in 1..MaxRows
<1> USE DEF IInv
<1>1. lastId \in Nat /\ manual \in Nat /\ manual <= MaxManual /\ MaxManual \in Nat /\ MaxRows \in Nat
  BY MaxRowsType, WebhookAssumption DEF TypeOK
<1>2. Cardinality(ManualCalls) \in Nat
  BY FS_CardinalityType DEF IdsSuffice
<1>3. CASE c.auto
  <2>1. c \in Call /\ c.event \in Events /\ c.hook \in Hooks /\ c.attempt \in 0..MaxRetries - 1
    <3>1. c \in Call /\ c.event \in 1..fired /\ c.attempt < MaxRetries
      BY <1>3, LiveTypes DEF CallsAreDue
    <3>2. 1..fired \subseteq Events
      BY WebhookAssumption DEF TypeOK, Events
    <3>3. QED
      BY <3>1, <3>2, CallFields, WebhookAssumption
  <2>2. <<<<c.event, c.hook>>, c.attempt>> \in Ahead
    BY <1>3, <2>1 DEF Ahead, Places, Flying
  <2>3. Cardinality(Ahead) # 0
    BY <2>2, AheadFinite, FS_EmptySet
  <2>4. QED
    BY <1>1, <1>2, <2>3, AheadFinite DEF IdsSuffice
<1>4. CASE ~c.auto
  <2>1. c \in ManualCalls
    BY <1>4 DEF ManualCalls
  <2>2. Cardinality(ManualCalls) # 0
    BY <2>1, FS_EmptySet DEF IdsSuffice
  <2>3. QED
    BY <1>1, <1>2, <2>2, AheadFinite DEF IdsSuffice
<1>5. QED
  BY <1>3, <1>4

\* What is recorded is a delivery of the call, to be retried if that is due.
LEMMA RecordResult ==
    ASSUME IInv, NEW c \in calls, NEW ok \in BOOLEAN, Record(c, ok)
    PROVE  /\ hook' \in [Hooks -> Hook] /\ lastId' \in 0..MaxRows /\ FailuresCounted'
           /\ lastId' \in {lastId, lastId + 1}
           /\ \E row \in Row :
                /\ row.event = c.event /\ row.hook = c.hook
                /\ row.attempt = c.attempt /\ row.auto = c.auto
                /\ row.retry => c.auto /\ c.attempt + 1 < MaxRetries
                /\ rows' \subseteq rows \cup {row}
<1> USE DEF IInv
<1> DEFINE failed == c.auto /\ ~ok
<1> DEFINE trip == failed /\ ~More(c) /\ Failures(c, ok) >= MaxRetries
<1> DEFINE row == [id |-> lastId + 1, event |-> c.event, hook |-> c.hook,
                   attempt |-> c.attempt, auto |-> c.auto, ok |-> ok,
                   retry |-> failed /\ More(c)]
<1>1. /\ c \in Call /\ c.event \in Events \cup {Test} /\ c.hook \in Hooks
      /\ c.attempt \in 0..MaxRetries /\ c.attempt \in Nat /\ c.auto \in BOOLEAN
  BY LiveTypes, CallFields
<1>2. lastId + 1 \in 1..MaxRows /\ lastId \in Nat
  BY RoomForRow, MaxRowsType DEF TypeOK
<1>3. row \in Row
  <2>1. (failed /\ More(c)) \in BOOLEAN
    BY <1>1 DEF More
  <2>2. QED
    BY <1>1, <1>2, <2>1 DEF Row, Attempt
<1>4. row.retry => c.auto /\ c.attempt + 1 < MaxRetries
  <2>1. More(c) => c.attempt + 1 < MaxRetries
    BY <1>1, WebhookAssumption DEF More
  <2> HIDE DEF trip
  <2>2. QED
    BY <2>1
<1>5. CASE hook[c.hook].status # "present"
  <2>1. UNCHANGED <<hook, rows, lastId>>
    BY <1>5 DEF Record
  <2>2. QED
    BY <2>1, <1>1, <1>3, <1>4 DEF TypeOK, FailuresCounted
<1>6. CASE hook[c.hook].status = "present"
  <2> DEFINE new == [hook[c.hook] EXCEPT !.failures = Failures(c, ok),
                                         !.enabled = hook[c.hook].enabled /\ ~trip]
  <2>1. /\ hook' = [hook EXCEPT ![c.hook].failures = Failures(c, ok),
                                ![c.hook].enabled = @ /\ ~trip]
        /\ rows' = Prune(rows \cup {row}, c.hook)
        /\ lastId' = lastId + 1
    BY <1>6 DEF Record
  <2>2. hook[c.hook] \in Hook /\ hook[c.hook].failures \in Nat /\ hook[c.hook].failures <= lastId
    BY <1>1, MaxRowsType DEF TypeOK, Hook, FailuresCounted
  <2>3. Failures(c, ok) \in 0..MaxRows /\ Failures(c, ok) <= lastId + 1
    BY <1>1, <1>2, <2>2, MaxRowsType DEF Failures
  <2>4. (hook[c.hook].enabled /\ ~trip) \in BOOLEAN
    <3> HIDE DEF trip
    <3>1. QED
      BY <2>2 DEF Hook
  <2>5. new \in Hook /\ new.failures <= lastId + 1 /\ new.failures \in Nat
    <3> HIDE DEF trip
    <3>1. new \in Hook /\ new.failures = Failures(c, ok)
      BY <2>2, <2>3, <2>4 DEF Hook
    <3>2. QED
      BY <2>3, <3>1, MaxRowsType
  <2>6. hook' = [hook EXCEPT ![c.hook] = new]
    <3> HIDE DEF trip
    <3>1. QED
      BY <1>1, <2>1, <2>2 DEF TypeOK, Hook
  <2> HIDE DEF new, trip, row
  <2>7. hook' \in [Hooks -> Hook]
    BY <2>5, <2>6 DEF TypeOK
  <2>8. FailuresCounted'
    <3> SUFFICES ASSUME NEW w \in Hooks PROVE hook'[w].failures <= lastId'
      BY DEF FailuresCounted
    <3>1. hook[w].failures \in Nat /\ hook[w].failures <= lastId
      BY MaxRowsType DEF TypeOK, Hook, FailuresCounted
    <3>2. hook'[w] = new \/ hook'[w] = hook[w]
      BY <2>6 DEF TypeOK
    <3>3. lastId' = lastId + 1
      BY <2>1
    <3>4. QED
      BY <3>1, <3>2, <3>3, <2>5, <1>2
  <2>9. rows' \subseteq rows \cup {row}
    BY <2>1 DEF Prune
  <2>10. /\ row.event = c.event /\ row.hook = c.hook
         /\ row.attempt = c.attempt /\ row.auto = c.auto
    BY DEF row
  <2>11. lastId' \in 0..MaxRows
    BY <1>2, <2>1, MaxRowsType
  <2>12. /\ row \in Row
         /\ row.event = c.event /\ row.hook = c.hook
         /\ row.attempt = c.attempt /\ row.auto = c.auto
         /\ row.retry => c.auto /\ c.attempt + 1 < MaxRetries
         /\ rows' \subseteq rows \cup {row}
    BY <1>3, <1>4, <2>9, <2>10
  <2>13. lastId' \in {lastId, lastId + 1}
    BY <2>1
  <2>14. QED
    BY <2>7, <2>8, <2>11, <2>12, <2>13
<1>7. QED
  BY <1>5, <1>6

\* The pass that waited for the call sends one delivery again at most.
LEMMA ContinueResult ==
    ASSUME IInv, NEW c \in calls, Continue(c)
    PROVE  /\ pass' \in [Passes -> Pass]
           /\ \E p \in Passes : \E D \in SUBSET pass[p].todo :
                /\ \A r, s \in D : r = s
                /\ calls' = (calls \ {c}) \cup {Resend(r, p) : r \in D}
                /\ pass'[p].todo = pass[p].todo \ D
                /\ \A q \in Passes \ {p} : pass'[q].todo = pass[q].todo
<1> USE DEF IInv
<1> DEFINE p == c.pass
<1>1. p \in Passes \cup {NoPass} /\ Tick \in Passes /\ NoPass \notin Passes
  BY LiveTypes, CallFields, WebhookAssumption DEF Passes
<1>2. CASE p = NoPass
  <2>1. calls' = calls \ {c} /\ pass' = pass
    BY <1>2 DEF Continue
  <2>2. {} \in SUBSET pass[Tick].todo /\ {Resend(r, Tick) : r \in {}} = {}
    OBVIOUS
  <2>3. QED
    BY <1>1, <2>1, <2>2 DEF TypeOK
<1>3. CASE p # NoPass /\ pass[p].todo = {}
  <2>1. calls' = calls \ {c} /\ pass' = [pass EXCEPT ![p] = Idle]
    BY <1>3 DEF Continue
  <2>2. {} \in SUBSET pass[p].todo /\ {Resend(r, p) : r \in {}} = {}
    OBVIOUS
  <2>3. Idle \in Pass /\ Idle.todo = {}
    BY DEF Idle, Pass
  <2>4. pass'[p].todo = pass[p].todo \ {} /\ \A q \in Passes \ {p} : pass'[q].todo = pass[q].todo
    BY <1>1, <1>3, <2>1, <2>3 DEF TypeOK
  <2>5. pass' \in [Passes -> Pass]
    BY <2>1, <2>3 DEF TypeOK
  <2>6. QED
    BY <1>1, <1>3, <2>1, <2>2, <2>4, <2>5
<1>4. CASE p # NoPass /\ pass[p].todo # {}
  <2>1. PICK r \in pass[p].todo :
          /\ calls' = (calls \ {c}) \cup {Resend(r, p)}
          /\ pass' = [pass EXCEPT ![p].todo = @ \ {r}]
    BY <1>4 DEF Continue
  <2>2. {r} \in SUBSET pass[p].todo /\ {Resend(s, p) : s \in {r}} = {Resend(r, p)}
    OBVIOUS
  <2>3. pass[p] \in Pass /\ pass[p].todo \subseteq Row
    BY <1>1, <1>4 DEF TypeOK, Pass
  <2>4. [pass[p] EXCEPT !.todo = pass[p].todo \ {r}] \in Pass
    BY <2>3 DEF Pass
  <2>5. /\ pass'[p].todo = pass[p].todo \ {r}
        /\ \A q \in Passes \ {p} : pass'[q].todo = pass[q].todo
    BY <1>1, <1>4, <2>1, <2>3 DEF TypeOK, Pass
  <2>6. pass' \in [Passes -> Pass]
    BY <2>1, <2>4 DEF TypeOK
  <2>7. QED
    BY <1>1, <1>4, <2>1, <2>2, <2>5, <2>6
<1>5. QED
  BY <1>2, <1>3, <1>4

LEMMA AnswerSafe ==
    ASSUME IInv, NEW c \in calls, NEW ok \in BOOLEAN, Answer(c, ok)
    PROVE  IInv' /\ ChainsMove
<1> USE DEF IInv
<1>1. /\ Record(c, ok) /\ Continue(c)
      /\ reading' = reading \ {c}
      /\ UNCHANGED <<retryEnabled, fired, manual, crashes>>
  BY DEF Answer
<1>2. /\ hook' \in [Hooks -> Hook] /\ lastId' \in 0..MaxRows /\ FailuresCounted'
      /\ lastId' \in {lastId, lastId + 1} /\ pass' \in [Passes -> Pass]
  BY <1>1, RecordResult, ContinueResult
<1> PICK row \in Row :
      /\ row.event = c.event /\ row.hook = c.hook
      /\ row.attempt = c.attempt /\ row.auto = c.auto
      /\ row.retry => c.auto /\ c.attempt + 1 < MaxRetries
      /\ rows' \subseteq rows \cup {row}
  BY <1>1, RecordResult
<1> PICK p \in Passes : \E D \in SUBSET pass[p].todo :
      /\ \A r, s \in D : r = s
      /\ calls' = (calls \ {c}) \cup {Resend(r, p) : r \in D}
      /\ pass'[p].todo = pass[p].todo \ D
      /\ \A q \in Passes \ {p} : pass'[q].todo = pass[q].todo
  BY <1>1, ContinueResult
<1> PICK D \in SUBSET pass[p].todo :
      /\ \A r, s \in D : r = s
      /\ calls' = (calls \ {c}) \cup {Resend(r, p) : r \in D}
      /\ pass'[p].todo = pass[p].todo \ D
      /\ \A q \in Passes \ {p} : pass'[q].todo = pass[q].todo
  OBVIOUS
<1>3. /\ fired \in Nat /\ 1..fired \subseteq Events
      /\ c \in Call /\ c.hook \in Hooks /\ c.attempt \in Nat
  BY LiveTypes, CallFields, WebhookAssumption DEF TypeOK, Events
<1>4. \A r \in D : /\ Resend(r, p) \in Call
                   /\ Resend(r, p).event = r.event /\ Resend(r, p).hook = r.hook
                   /\ Resend(r, p).attempt = r.attempt + 1 /\ Resend(r, p).auto
                   /\ Resend(r, p).pass = p
                   /\ r.event \in 1..fired /\ r.hook \in Hooks /\ r.attempt + 1 < MaxRetries
                   /\ Due(r) /\ r.retry /\ r \in Waiting(r.event, r.hook)
  <2> SUFFICES ASSUME NEW r \in D PROVE <1>4!(r)
    OBVIOUS
  <2>1. r \in Row /\ r.retry /\ r.auto /\ r.event \in 1..fired /\ r.attempt + 1 < MaxRetries
    BY LiveTypes DEF RetriesAreDue
  <2>2. Due(r) /\ r.hook \in Hooks
    BY <2>1, RowFields DEF Due
  <2>3. r \in Waiting(r.event, r.hook)
    BY <2>1, <2>2, WaitingIs
  <2>4. QED
    BY <2>1, <2>2, <2>3, ResendType
<1>5. TypeOK'
  BY <1>1, <1>2, <1>4 DEF TypeOK
\* The chain of the call
<1>6. ASSUME c.auto
      PROVE  /\ c.event \in 1..fired /\ c.event \in Events /\ c.attempt < MaxRetries
             /\ c \in Flying(c.event, c.hook)
             /\ Waiting(c.event, c.hook) = {}
             /\ \A d \in Flying(c.event, c.hook) : d = c
             /\ \A r \in D : ~(r.event = c.event /\ r.hook = c.hook)
  <2>1. c.event \in 1..fired /\ c.attempt < MaxRetries
    BY <1>6 DEF CallsAreDue
  <2>2. c \in Flying(c.event, c.hook)
    BY <1>6 DEF Flying
  <2>3. Waiting(c.event, c.hook) = {} /\ \A d \in Flying(c.event, c.hook) : d = c
    BY <1>3, <2>1, <2>2 DEF OneOfAChain
  <2>4. QED
    BY <1>3, <1>4, <2>1, <2>2, <2>3
<1>7. \A r : Due(r)' => (Due(r) /\ r \notin D) \/ (r = row /\ row.retry)
  <2> SUFFICES ASSUME NEW r, Due(r)' PROVE (Due(r) /\ r \notin D) \/ (r = row /\ row.retry)
    OBVIOUS
  <2>1. CASE r \in rows' /\ r.retry
    BY <2>1 DEF Due, OnePlace
  <2>2. CASE \E q \in Passes : r \in pass'[q].todo
    <3>1. PICK q \in Passes : r \in pass'[q].todo
      BY <2>2
    <3>2. CASE q = p
      BY <3>1, <3>2 DEF Due
    <3>3. CASE q # p
      BY <3>1, <3>3 DEF Due, OnePlace
    <3>4. QED
      BY <3>2, <3>3
  <2>3. QED
    BY <2>1, <2>2 DEF Due
<1>8. \A e, w : \A r \in Waiting(e, w)' :
        \/ r \in Waiting(e, w) /\ r \notin D
        \/ r = row /\ row.retry /\ e = c.event /\ w = c.hook
  BY <1>7, WaitingIs, WaitingBecomes
<1>9. \A e, w : \A d \in Flying(e, w)' :
        \/ d \in Flying(e, w) /\ d # c
        \/ \E r \in D : d = Resend(r, p) /\ e = r.event /\ w = r.hook
  BY <1>4 DEF Flying
<1>10. ChainsMove
  <2> SUFFICES ASSUME NEW e \in Events, NEW w \in Hooks PROVE Moves(e, w)
    BY <1>1, <1>3 DEF ChainsMove
  <2>1. ASSUME NEW d \in Flying(e, w)'
        PROVE  d \in Flying(e, w) \/ \E r \in Waiting(e, w) : d.attempt = r.attempt + 1
    BY <2>1, <1>4, <1>9
  <2>2. ASSUME NEW r \in Waiting(e, w)'
        PROVE  \/ r \in Waiting(e, w)
               \/ \E d \in Flying(e, w) : d.attempt = r.attempt /\ d.attempt + 1 < MaxRetries
    BY <2>2, <1>6, <1>8
  <2>3. QED
    BY <2>1, <2>2 DEF Moves
<1>11. RetriesAreDue'
  <2>1. \A r \in rows' : /\ r.auto => r.event \in 1..fired
                         /\ r.retry => r.auto /\ r.attempt + 1 < MaxRetries
    BY <1>6 DEF RetriesAreDue
  <2>2. \A q \in Passes : pass'[q].todo \subseteq pass[q].todo
    OBVIOUS
  <2>3. QED
    BY <2>1, <2>2, <1>1 DEF RetriesAreDue
<1>12. CallsAreDue'
  BY <1>1, <1>4 DEF CallsAreDue
<1>13. OneOfAChain'
  <2> SUFFICES ASSUME NEW e \in Events, NEW w \in Hooks PROVE OneOfAChain!(e, w)'
    BY DEF OneOfAChain
  <2>1. CASE c.auto /\ e = c.event /\ w = c.hook
    BY <2>1, <1>6, <1>8, <1>9
  <2>2. CASE \E r \in D : e = r.event /\ w = r.hook
    <3>1. PICK r \in D : e = r.event /\ w = r.hook
      BY <2>2
    <3>2. r \in Waiting(e, w)
      BY <3>1, <1>4
    <3>3. Flying(e, w) = {} /\ \A s \in Waiting(e, w) : s = r
      BY <3>2 DEF OneOfAChain
    <3>4. ~(row.retry /\ e = c.event /\ w = c.hook)
      BY <3>1, <1>6
    <3>5. Waiting(e, w)' = {}
      BY <3>1, <3>3, <3>4, <1>8
    <3>6. \A d \in Flying(e, w)' : d = Resend(r, p)
      BY <3>1, <3>3, <1>9
    <3>7. QED
      BY <3>5, <3>6
  <2>3. CASE ~(c.auto /\ e = c.event /\ w = c.hook) /\ ~(\E r \in D : e = r.event /\ w = r.hook)
    <3>1. Waiting(e, w)' \subseteq Waiting(e, w) /\ Flying(e, w)' \subseteq Flying(e, w)
      BY <2>3, <1>8, <1>9
    <3>2. QED
      BY <3>1 DEF OneOfAChain
  <2>4. QED
    BY <2>1, <2>2, <2>3
<1>14. OnePlace'
  <2> SUFFICES ASSUME NEW q \in Passes, NEW r \in pass'[q].todo
               PROVE  r \notin rows' /\ \A u \in Passes \ {q} : r \notin pass'[u].todo
    BY DEF OnePlace
  <2>1. \A u \in Passes : pass'[u].todo \subseteq pass[u].todo
    OBVIOUS
  <2>2. r \in pass[q].todo /\ r \notin rows /\ \A u \in Passes \ {q} : r \notin pass[u].todo
    BY <2>1 DEF OnePlace
  <2>3. r # row
    <3> SUFFICES ASSUME r = row PROVE FALSE
      OBVIOUS
    <3>1. r.retry /\ r.auto
      BY <2>2 DEF RetriesAreDue
    <3>2. r \in Waiting(c.event, c.hook)
      BY <2>2, <3>1, WaitingIs DEF Due
    <3>3. QED
      BY <3>1, <3>2, <1>6
  <2>4. QED
    BY <2>1, <2>2, <2>3
<1>15. IdsSuffice'
  <2>1. ManualCalls' \subseteq ManualCalls \ {c}
    BY <1>4 DEF ManualCalls
  <2>2. CASE lastId' = lastId
    BY <1>1, <1>5, <1>10, <2>1, <2>2, IdsKept
  <2>3. CASE lastId' = lastId + 1
    <3>1. Ahead' \subseteq Ahead
      BY <1>5, <1>10, AheadShrinks
    <3>2. /\ IsFiniteSet(ManualCalls') /\ Cardinality(ManualCalls') <= Cardinality(ManualCalls)
          /\ Cardinality(ManualCalls) \in Nat /\ Cardinality(ManualCalls') \in Nat
      BY <2>1, FS_Subset, FS_CardinalityType DEF IdsSuffice
    <3>3. lastId \in Nat /\ manual \in Nat /\ MaxManual \in Nat
      BY MaxRowsType, WebhookAssumption DEF TypeOK
    <3>4. CASE c.auto
      <4> DEFINE x == <<<<c.event, c.hook>>, c.attempt>>
      <4>1. x \in Ahead
        <5>1. x \in Places
          BY <3>4, <1>3, <1>6, WebhookAssumption DEF Places
        <5>2. c \in Flying(c.event, c.hook) /\ c.attempt <= c.attempt
          BY <3>4, <1>3, <1>6
        <5>3. QED
          BY <5>1, <5>2 DEF Ahead
      <4>2. x \notin Ahead'
        <5>1. Flying(c.event, c.hook)' = {} /\ \A r \in Waiting(c.event, c.hook)' : r = row
          BY <3>4, <1>6, <1>8, <1>9
        <5>2. ~(c.event > fired')
          BY <3>4, <1>1, <1>3, <1>6
        <5>3. ~(row.attempt < c.attempt)
          BY <1>3
        <5>4. QED
          BY <5>1, <5>2, <5>3 DEF Ahead
      <4>3. Ahead' \subseteq Ahead \ {x}
        BY <3>1, <4>2
      <4> HIDE DEF x
      <4>4. IsFiniteSet(Ahead \ {x}) /\ Cardinality(Ahead \ {x}) = Cardinality(Ahead) - 1
        BY <4>1, AheadFinite, FS_RemoveElement
      <4>5. Cardinality(Ahead') <= Cardinality(Ahead) - 1
        BY <4>3, <4>4, FS_Subset
      <4>6. QED
        BY <1>1, <2>3, <3>2, <3>3, <4>5, AheadFinite, AheadWillBeFinite, MaxRowsType DEF IdsSuffice
    <3>5. CASE ~c.auto
      <4>1. c \in ManualCalls
        BY <3>5 DEF ManualCalls
      <4>2. /\ IsFiniteSet(ManualCalls \ {c})
            /\ Cardinality(ManualCalls \ {c}) = Cardinality(ManualCalls) - 1
        BY <4>1, FS_RemoveElement DEF IdsSuffice
      <4>3. Cardinality(ManualCalls') <= Cardinality(ManualCalls) - 1
        BY <2>1, <4>2, FS_Subset
      <4>4. Cardinality(Ahead') <= Cardinality(Ahead)
        BY <3>1, AheadFinite, FS_Subset
      <4>5. QED
        BY <1>1, <2>3, <3>2, <3>3, <4>3, <4>4, AheadFinite, AheadWillBeFinite, MaxRowsType DEF IdsSuffice
    <3>6. QED
      BY <3>4, <3>5
  <2>4. QED
    BY <1>2, <2>2, <2>3
<1>16. QED
  BY <1>2, <1>5, <1>10, <1>11, <1>12, <1>13, <1>14, <1>15

---------------------------------------------------------------------------
(* Every step *)

\* Headers and the setting are of no chain.
LEMMA AsideSafe ==
    ASSUME IInv, reading' \subseteq calls, retryEnabled' \in BOOLEAN,
           UNCHANGED <<hook, rows, lastId, calls, pass, fired, manual, crashes>>
    PROVE  IInv' /\ ChainsMove
<1>1. TypeOK' /\ FailuresCounted'
  BY DEF IInv, TypeOK, FailuresCounted
<1>2. QED
  BY <1>1, FewerSafe

LEMMA StepSafe == IInv /\ [Next]_vars => IInv' /\ ChainsMove
<1> SUFFICES ASSUME IInv, [Next]_vars PROVE IInv' /\ ChainsMove
  OBVIOUS
<1>1. CASE UNCHANGED vars
  <2>1. reading' \subseteq calls /\ retryEnabled' \in BOOLEAN
    BY <1>1 DEF vars, IInv, TypeOK
  <2>2. QED
    BY <1>1, <2>1, AsideSafe DEF vars
<1>2. ASSUME NEW w \in Hooks,
             \/ CreateWebhook(w)
             \/ \E enabled, resetCircuit \in BOOLEAN : UpdateWebhook(w, enabled, resetCircuit)
             \/ DeleteWebhook(w)
             \/ TestCall(w)
      PROVE  IInv' /\ ChainsMove
  BY <1>2, CreateSafe, UpdateSafe, DeleteSafe, TestCallSafe
<1>3. ASSUME NEW S \in SUBSET Hooks, Fire(S)
      PROVE  IInv' /\ ChainsMove
  BY <1>3, FireSafe
<1>4. ASSUME NEW r \in rows, ManualRetry(r)
      PROVE  IInv' /\ ChainsMove
  BY <1>4, ManualRetrySafe
<1>5. ASSUME NEW c \in calls, NEW ok \in BOOLEAN, Answer(c, ok)
      PROVE  IInv' /\ ChainsMove
  BY <1>5, AnswerSafe
<1>6. ASSUME NEW p \in Passes, NEW batch \in SUBSET rows, StartPass(p, batch)
      PROVE  IInv' /\ ChainsMove
  BY <1>6, StartPassSafe
<1>7. CASE Crash
  BY <1>7, CrashSafe
<1>8. ASSUME NEW on \in BOOLEAN, SetRetryEnabled(on)
      PROVE  IInv' /\ ChainsMove
  <2>1. reading' \subseteq calls /\ retryEnabled' \in BOOLEAN
    BY <1>8 DEF SetRetryEnabled, IInv, TypeOK
  <2>2. QED
    BY <1>8, <2>1, AsideSafe DEF SetRetryEnabled
<1>9. ASSUME NEW c \in calls, HeadersCome(c)
      PROVE  IInv' /\ ChainsMove
  <2>1. reading' \subseteq calls /\ retryEnabled' \in BOOLEAN
    BY <1>9 DEF HeadersCome, IInv, TypeOK
  <2>2. QED
    BY <1>9, <2>1, AsideSafe DEF HeadersCome
<1>10. QED
  BY <1>1, <1>2, <1>3, <1>4, <1>5, <1>6, <1>7, <1>8, <1>9 DEF Next

---------------------------------------------------------------------------
(* The chains as DeliveryChains sees them *)

Seen ==
    \A e \in Events, w \in Hooks :
        /\ \A c \in Flying(e, w) :
             Phase(e, w) = "flying" /\ LastAttempt(e, w) = c.attempt /\ e <= fired
        /\ \A r \in Waiting(e, w) :
             Phase(e, w) = "waiting" /\ LastAttempt(e, w) = r.attempt /\ e <= fired
        /\ Flying(e, w) = {} /\ Waiting(e, w) = {} =>
             /\ Phase(e, w) = IF e <= fired THEN "over" ELSE "none"
             /\ LastAttempt(e, w) = 0

LEMMA IsSeen == IInv => Seen
<1> SUFFICES ASSUME IInv, NEW e \in Events, NEW w \in Hooks PROVE Seen!(e, w)
  BY DEF Seen
<1> USE DEF IInv
<1>1. ASSUME NEW c \in Flying(e, w)
      PROVE  Phase(e, w) = "flying" /\ LastAttempt(e, w) = c.attempt /\ e <= fired
  <2>1. Waiting(e, w) = {} /\ \A d \in Flying(e, w) : d = c
    BY <1>1 DEF OneOfAChain
  <2>2. {x.attempt : x \in Flying(e, w) \cup Waiting(e, w)} = {c.attempt}
    BY <1>1, <2>1
  <2>3. LastAttempt(e, w) = c.attempt
    BY <2>2 DEF LastAttempt
  <2>4. e \in 1..fired /\ fired \in Nat
    BY <1>1, WebhookAssumption DEF Flying, CallsAreDue, TypeOK
  <2>5. QED
    BY <1>1, <2>3, <2>4 DEF Phase
<1>2. ASSUME NEW r \in Waiting(e, w)
      PROVE  Phase(e, w) = "waiting" /\ LastAttempt(e, w) = r.attempt /\ e <= fired
  <2>1. Flying(e, w) = {} /\ \A s \in Waiting(e, w) : s = r
    BY <1>2 DEF OneOfAChain
  <2>2. {x.attempt : x \in Flying(e, w) \cup Waiting(e, w)} = {r.attempt}
    BY <1>2, <2>1
  <2>3. LastAttempt(e, w) = r.attempt
    BY <2>2 DEF LastAttempt
  <2>4. e \in 1..fired /\ fired \in Nat
    BY <1>2, WaitingIs, WebhookAssumption DEF Due, RetriesAreDue, TypeOK
  <2>5. QED
    BY <1>2, <2>1, <2>3, <2>4 DEF Phase
<1>3. ASSUME Flying(e, w) = {} /\ Waiting(e, w) = {}
      PROVE  /\ Phase(e, w) = IF e <= fired THEN "over" ELSE "none"
             /\ LastAttempt(e, w) = 0
  <2>1. {x.attempt : x \in Flying(e, w) \cup Waiting(e, w)} = {}
    BY <1>3
  <2>2. QED
    BY <1>3, <2>1 DEF Phase, LastAttempt
<1>4. QED
  BY <1>1, <1>2, <1>3

LEMMA IsSeenLater == IInv' => Seen'
BY IsSeen, PTL

\* A step of the webhooks is a step of every chain.
LEMMA ChainStep ==
    ASSUME IInv, IInv', ChainsMove, NEW e \in Events, NEW w \in Hooks
    PROVE  \/ Phase(e, w) = "none" /\ Phase(e, w)' = "flying" /\ LastAttempt(e, w)' = 0
           \/ /\ Phase(e, w) = "flying" /\ LastAttempt(e, w) + 1 < MaxRetries + 1
              /\ Phase(e, w)' = "waiting" /\ LastAttempt(e, w)' = LastAttempt(e, w)
           \/ /\ Phase(e, w) = "waiting"
              /\ Phase(e, w)' = "flying" /\ LastAttempt(e, w)' = LastAttempt(e, w) + 1
           \/ Phase(e, w)' = "over" /\ LastAttempt(e, w)' = 0
           \/ Phase(e, w)' = Phase(e, w) /\ LastAttempt(e, w)' = LastAttempt(e, w)
<1>1. Seen /\ Seen'
  BY IsSeen, IsSeenLater
<1>2. fired \in Nat /\ fired' \in Nat /\ e \in Nat /\ fired <= fired' /\ Moves(e, w)
  BY WebhookAssumption DEF IInv, TypeOK, ChainsMove, Events
<1>3. /\ \A c \in Flying(e, w) :
           Phase(e, w) = "flying" /\ LastAttempt(e, w) = c.attempt /\ e <= fired
      /\ \A r \in Waiting(e, w) :
           Phase(e, w) = "waiting" /\ LastAttempt(e, w) = r.attempt /\ e <= fired
      /\ Flying(e, w) = {} /\ Waiting(e, w) = {} =>
           /\ Phase(e, w) = IF e <= fired THEN "over" ELSE "none"
           /\ LastAttempt(e, w) = 0
  BY <1>1 DEF Seen
<1>4. /\ \A c \in Flying(e, w)' : Phase(e, w)' = "flying" /\ LastAttempt(e, w)' = c.attempt
      /\ \A r \in Waiting(e, w)' : Phase(e, w)' = "waiting" /\ LastAttempt(e, w)' = r.attempt
      /\ Flying(e, w)' = {} /\ Waiting(e, w)' = {} =>
           /\ Phase(e, w)' = IF e <= fired' THEN "over" ELSE "none"
           /\ LastAttempt(e, w)' = 0
  BY <1>1 DEF Seen
<1>5. CASE \E c \in Flying(e, w)' : TRUE
  <2>1. PICK c \in Flying(e, w)' : Phase(e, w)' = "flying" /\ LastAttempt(e, w)' = c.attempt
    BY <1>4, <1>5
  <2>2. CASE c \in Flying(e, w)
    BY <1>3, <2>1, <2>2
  <2>3. CASE e > fired /\ c.attempt = 0
    <3>1. Flying(e, w) = {} /\ Waiting(e, w) = {} /\ ~(e <= fired)
      BY <1>2, <1>3, <2>3
    <3>2. QED
      BY <1>3, <2>1, <2>3, <3>1
  <2>4. CASE \E r \in Waiting(e, w) : c.attempt = r.attempt + 1
    BY <1>3, <2>1, <2>4
  <2>5. QED
    BY <1>2, <2>2, <2>3, <2>4 DEF Moves
<1>6. CASE \E r \in Waiting(e, w)' : TRUE
  <2>1. PICK r \in Waiting(e, w)' : Phase(e, w)' = "waiting" /\ LastAttempt(e, w)' = r.attempt
    BY <1>4, <1>6
  <2>2. CASE r \in Waiting(e, w)
    BY <1>3, <2>1, <2>2
  <2>3. CASE \E c \in Flying(e, w) : c.attempt = r.attempt /\ c.attempt + 1 < MaxRetries
    <3>1. PICK c \in Flying(e, w) : c.attempt = r.attempt /\ c.attempt + 1 < MaxRetries
      BY <2>3
    <3>2. c.attempt \in Nat
      BY LiveTypes, CallFields DEF Flying, IInv
    <3>3. c.attempt + 1 < MaxRetries + 1
      BY <3>1, <3>2, WebhookAssumption
    <3>4. QED
      BY <1>3, <2>1, <3>1, <3>3
  <2>4. QED
    BY <1>2, <2>2, <2>3 DEF Moves
<1>7. CASE Flying(e, w)' = {} /\ Waiting(e, w)' = {}
  <2>1. CASE e <= fired'
    BY <1>4, <1>7, <2>1
  <2>2. CASE ~(e <= fired')
    <3>1. ~(e <= fired)
      BY <1>2, <2>2
    <3>2. Flying(e, w) = {} /\ Waiting(e, w) = {}
      BY <1>3, <3>1
    <3>3. QED
      BY <1>3, <1>4, <1>7, <2>2, <3>1, <3>2
  <2>3. QED
    BY <2>1, <2>2
<1>8. QED
  BY <1>5, <1>6, <1>7

LEMMA StartsUnsent == Init => Promised!Init
<1> SUFFICES ASSUME Init PROVE Promised!Init
  OBVIOUS
<1>1. \A e \in Events, w \in Hooks : Phase(e, w) = "none" /\ LastAttempt(e, w) = 0
  <2> SUFFICES ASSUME NEW e \in Events, NEW w \in Hooks
               PROVE  Phase(e, w) = "none" /\ LastAttempt(e, w) = 0
    OBVIOUS
  <2>1. Seen /\ e \in Nat /\ e >= 1 /\ fired = 0
    BY Initially, IsSeen, WebhookAssumption DEF Init, Events
  <2>2. Flying(e, w) = {}
    BY DEF Init, Flying
  <2>3. Waiting(e, w) = {}
    BY WaitingIs DEF Init, Due, Idle
  <2>4. QED
    BY <2>1, <2>2, <2>3 DEF Seen
<1>2. QED
  BY <1>1 DEF Promised!Init

LEMMA StepImplements ==
    ASSUME IInv, IInv', ChainsMove
    PROVE  Promised!Next
<1> SUFFICES ASSUME NEW c \in Events \X Hooks
             PROVE  \/ Promised!FirstCall(c) \/ Promised!AwaitRetry(c)
                    \/ Promised!NextCall(c) \/ Promised!Finish(c)
                    \/ /\ [d \in Events \X Hooks |-> Phase(d[1], d[2])]'[c]
                            = [d \in Events \X Hooks |-> Phase(d[1], d[2])][c]
                       /\ [d \in Events \X Hooks |-> LastAttempt(d[1], d[2])]'[c]
                            = [d \in Events \X Hooks |-> LastAttempt(d[1], d[2])][c]
  BY DEF Promised!Next
<1> PICK e \in Events, w \in Hooks : e = c[1] /\ w = c[2]
  OBVIOUS
<1>1. QED
  BY ChainStep DEF Promised!FirstCall, Promised!AwaitRetry, Promised!NextCall, Promised!Finish

---------------------------------------------------------------------------
(* The theorems *)

\* What webhooks.ts and the scheduler keep of deliveries, calls and passes in
\* every interleaving of answers, overlapping passes, deletions and restarts.
THEOREM WebhookInvariant == Spec => []IInv
BY Initially, StepSafe, PTL DEF Spec

\* Tables, calls and passes keep their types; no more deliveries are recorded
\* than chains and manual calls make.
THEOREM WebhookTypeCorrect == Spec => []TypeOK
<1>1. IInv => TypeOK
  BY DEF IInv
<1>2. QED
  BY <1>1, WebhookInvariant, PTL

\* Clearing next_retry_at as a pass selects (processWebhookRetries) is enough:
\* however many passes overlap, a chain has one call in flight or one retry
\* that waits.
THEOREM NoDoubleProcessing == Spec => []OneLiveCallPerChain
<1>1. ASSUME NEW S, \A x, y \in S : x = y
      PROVE  Cardinality(S) \in {0, 1} /\ (S = {} => Cardinality(S) = 0)
  <2>1. CASE S = {}
    BY <2>1, FS_EmptySet
  <2>2. CASE S # {}
    <3>1. PICK x : S = {x}
      BY <1>1, <2>2
    <3>2. QED
      BY <2>2, <3>1, FS_Singleton
  <2>3. QED
    BY <2>1, <2>2
<1>2. IInv => OneLiveCallPerChain
  <2> SUFFICES ASSUME IInv, NEW e \in Events, NEW w \in Hooks
               PROVE  Cardinality(Waiting(e, w)) + Cardinality(Flying(e, w)) <= 1
    BY DEF OneLiveCallPerChain
  <2>1. /\ \A r, s \in Waiting(e, w) : r = s
        /\ \A c, d \in Flying(e, w) : c = d
        /\ Waiting(e, w) = {} \/ Flying(e, w) = {}
    BY DEF IInv, OneOfAChain
  <2>2. QED
    BY <1>1, <2>1
<1>3. QED
  BY <1>2, WebhookInvariant, PTL

\* The calls of deliverWebhook and of the retry passes are the chains that
\* DeliveryChains promises: one call at a time, numbered one after the other,
\* none after the documented last one and none once a chain is over.
THEOREM ChainsImplemented == Spec => ImplementsChains
<1>1. Init => Promised!Init
  BY StartsUnsent
<1>2. IInv /\ IInv' /\ ChainsMove => [Promised!Next]_(Promised!chains)
  BY StepImplements
<1>3. IInv /\ [Next]_vars => ChainsMove
  BY StepSafe
<1>4. QED
  BY <1>1, <1>2, <1>3, WebhookInvariant, PTL DEF Spec, ImplementsChains, Promised!Spec

=============================================================================
