----------------------------- MODULE SharedFiles -----------------------------
(***************************************************************************)
(* The files that requests and timers rewrite as a whole: the cron jobs    *)
(* (api/cron), the posted token records (api/tokens, with the cleanup of    *)
(* api/cleanup and src/lib/scheduler.ts), the .env of the integrations     *)
(* (api/integrations) and openclaw.json (api/gateway-config, api/agents/[id] *)
(* and src/lib/agent-sync.ts).  No lock is taken: a request reads the file, *)
(* changes its copy and writes it back, with an await at each step.        *)
(*                                                                         *)
(* A behaviour is about one of the files, with a few entries: jobs,        *)
(* records, variables, or the leaves of the fields of an agent (tools.allow, *)
(* identity.emoji, model), which the config column of the agents table     *)
(* holds as well.  The file is merged leaf by leaf, the column field by    *)
(* field.  Which leaves make a field is left open; a field does not change *)
(* from an object to a plain value or back.                                *)
(***************************************************************************)
EXTENDS Naturals

CONSTANTS
    Keys,
    Values,
    None,         \* there is no entry
    Absent,       \* there is no file
    Cut,          \* opened for writing, not written to its end: no JSON, no line of .env
    Elsewhere,    \* keys of the records of another workspace
    Enriched,     \* leaves that identity.md and TOOLS.md of an agent may give, too
    Slots,        \* bound: requests in flight
    MaxRequests,  \* bound: requests
    MaxFaults     \* bound: failing writes, failing updates, crashes

ASSUME FilesAssumption ==
    /\ None \notin Values
    /\ Absent # Cut
    /\ {Absent, Cut} \cap [Keys -> Values \cup {None}] = {}
    /\ Elsewhere \subseteq Keys
    /\ Enriched \subseteq Keys
    /\ MaxRequests \in Nat
    /\ MaxFaults \in Nat

VARIABLES
    which,     \* the file of this behaviour
    live,      \* the file
    temp,      \* .env.tmp
    req,       \* requests in flight
    row,       \* the leaves of the agent in the agents table
    due,       \* what the file holds by the answers given (history)
    apart,     \* leaves that were set on one side only (history)
    erased,    \* records that a post of another workspace left out (history)
    doubtful,  \* entries whose requests overlapped others or broke off (history)
    crossed,   \* requests overlapped (history)
    blind,     \* a file cut short was taken for an empty one (history)
    requests,
    faults

files == <<live, temp>>
history == <<due, apart, erased, doubtful, crossed, blind>>
vars == <<which, files, req, row, history, requests, faults>>

Ops ==
    [jobs   |-> {"add", "toggle", "remove"},
     tokens |-> {"post", "prune"},
     env    |-> {"put", "delete"},
     config |-> {"edit", "agent", "sync"}]

Content == [Keys -> Values \cup {None}]
Empty == [k \in Keys |-> None]
File == Content \cup {Absent, Cut}

Idle == [phase |-> "idle"]
\* was is the row an agent's update read; fd the file a write goes to.
Request ==
    [phase : {"begun", "read", "open", "written", "filed"},
     op : {"rollback"} \cup UNION {Ops[f] : f \in DOMAIN Ops},
     keys : SUBSET Keys, value : Values \cup {None}, copy : Content, was : Content,
     fd : {"none", "temp", "live", "gone"}]

TypeOK ==
    /\ which \in DOMAIN Ops
    /\ live \in File /\ temp \in File
    /\ which = "config" => live # Absent
    /\ which # "env" => temp = Absent
    /\ req \in [Slots -> Request \cup {Idle}]
    /\ row \in Content
    /\ due \in Content
    /\ apart \subseteq Keys /\ erased \subseteq Keys /\ doubtful \subseteq Keys
    /\ crossed \in BOOLEAN /\ blind \in BOOLEAN
    /\ requests \in 0..MaxRequests /\ faults \in 0..MaxFaults

Init ==
    /\ which \in DOMAIN Ops
    /\ live \in Content \cup (IF which = "config" THEN {} ELSE {Absent})
    /\ temp = Absent
    /\ req = [s \in Slots |-> Idle]
    /\ due = IF live = Absent THEN Empty ELSE live
    /\ row = IF which = "config" THEN live ELSE Empty
    /\ apart = {} /\ erased = {} /\ doubtful = {}
    /\ crossed = FALSE /\ blind = FALSE
    /\ requests = 0 /\ faults = 0

---------------------------------------------------------------------------
Phase(s, phase) == req[s] # Idle /\ req[s].phase = phase

\* The entries a request changes
KeysOf(r) == IF r = Idle THEN {} ELSE r.keys
InFlight == UNION {KeysOf(req[s]) : s \in Slots}

\* Past its first read: of the row for an agent, of the file otherwise
Active(s) == req[s] # Idle /\ (req[s].phase # "begun" \/ req[s].op \in {"agent", "rollback"})
Rivals(s) == {t \in Slots \ {s} : Active(t)}

\* s, a request for ks, makes its first read; lost are the entries it gives up.
Meets(s, ks, lost) ==
    /\ crossed' = (crossed \/ Rivals(s) # {})
    /\ doubtful' = doubtful \cup lost \cup
         (IF Rivals(s) = {} THEN {} ELSE ks \cup UNION {req[t].keys : t \in Rivals(s)})

Counted ==
    /\ requests < MaxRequests
    /\ requests' = requests + 1

Fault ==
    /\ faults < MaxFaults
    /\ faults' = faults + 1

\* A request for the entries ks comes to its first read: of the row for an
\* agent, of the file otherwise.
Begin(s, op, ks, v) ==
    /\ Counted
    /\ req[s] = Idle
    /\ op \in Ops[which]
    /\ req' = [req EXCEPT ![s] =
                 [phase |-> "begun", op |-> op, keys |-> ks, value |-> v,
                  copy |-> Empty, was |-> IF op = "agent" THEN row ELSE Empty, fd |-> "none"]]
    /\ IF op = "agent" THEN Meets(s, ks, {}) ELSE UNCHANGED <<doubtful, crossed>>
    /\ UNCHANGED <<which, files, row, due, apart, erased, blind, faults>>

\* POST /api/cron
AddJob(s, k, v) == Begin(s, "add", {k}, v)
ToggleJob(s, k, v) == Begin(s, "toggle", {k}, v)
RemoveJob(s, k) == Begin(s, "remove", {k}, None)

\* POST /api/tokens makes a record of its own.
PostTokens(s, k, v) == due[k] = None /\ Begin(s, "post", {k}, v)

\* The cleanup of the scheduler, and POST /api/cleanup
Cleanup(s, ks) == Begin(s, "prune", ks, None)
CleanupNow(s, ks) == Cleanup(s, ks)

\* PUT and DELETE /api/integrations; a pull sets one variable or all it can get.
PutVars(s, ks, v) == Begin(s, "put", ks, v)
DeleteVars(s, ks) == Begin(s, "delete", ks, None)
Pull(s, k, v) == PutVars(s, {k}, v)
PullAll(s, ks, v) == PutVars(s, ks, v)

\* PUT /api/gateway-config
EditConfig(s, ks, v) == Begin(s, "edit", ks, v)

\* PUT /api/agents/[id]
UpdateAgent(s, ks, v) == Begin(s, "agent", ks, v)

\* syncAgentsFromConfig
SyncAgents(s) == Begin(s, "sync", {}, None)

\* "{ ...existingConfig, ...gateway_config }": of the fields that are given, whose
\* leaves are replaced, only the leaves ks stay.
Merged(old, ks, v, replaced) ==
    [k \in Keys |-> IF k \in ks THEN v ELSE IF k \in replaced THEN None ELSE old[k]]

\* PUT /api/agents/[id] that is not to be written to the gateway
SetRow(ks, v) ==
    /\ Counted
    /\ which = "config"
    /\ \E replaced \in SUBSET Keys : row' = Merged(row, ks, v, replaced)
    /\ apart' = apart \cup ks
    /\ UNCHANGED <<which, files, req, due, erased, doubtful, crossed, blind, faults>>

---------------------------------------------------------------------------
(* Reading *)

\* These take a file they cannot read for an empty one.
Tolerant == {"add", "post", "put", "delete"}

\* k is a record of the workspace r is about.
SameWorkspace(r, k) == \E own \in r.keys : (own \in Elsewhere) = (k \in Elsewhere)

\* A post goes on with the records of its own workspace.
Basis(r) ==
    [k \in Keys |-> IF live \notin Content \/ (r.op = "post" /\ ~SameWorkspace(r, k))
                    THEN None ELSE live[k]]

\* mutant: what a request sets takes the place of what there was
OnlyWhatIsSet(r) == [k \in Keys |-> IF k \in r.keys THEN r.value ELSE None]

\* What a request sets is merged into what there is, leaf by leaf for an agent.
\* A rollback merges what the row had into the file: leaves that the row had not,
\* the update's own among them, stay.
Changed(r) ==
    [k \in Keys |->
        IF r.op = "rollback" THEN IF r.was[k] # None THEN r.was[k] ELSE Basis(r)[k]
        ELSE IF k \in r.keys THEN r.value ELSE Basis(r)[k]]

\* There is something to be changed.
Applies(r) ==
    /\ live \in Content \/ r.op \in Tolerant
    /\ r.op \in {"toggle", "remove", "prune", "delete"} =>
         \E k \in r.keys : Basis(r)[k] # None

\* Leaves a rollback cannot put back, or puts into the file although nobody set
\* them there: set on one side only, new, or known from the agent's workspace.
NotPutBack(r) ==
    IF r.op = "rollback"
    THEN apart \cup {k \in r.keys : r.was[k] = None} \cup {k \in Enriched : due[k] = None}
    ELSE {}

\* The records of other workspaces, which a post does not write again
LeftOut(r) ==
    IF r.op = "post" THEN {k \in Keys : live \in Content /\ live[k] # Basis(r)[k]} \ r.keys ELSE {}

Read(s) ==
    /\ Phase(s, "begun")
    /\ Applies(req[s])
    /\ req' = [req EXCEPT ![s].phase = "read", ![s].copy = Changed(req[s])]
    /\ Meets(s, req[s].keys, NotPutBack(req[s]))
    /\ erased' = erased \cup LeftOut(req[s])
    /\ blind' = (blind \/ live = Cut)
    /\ UNCHANGED <<which, files, row, due, apart, requests, faults>>

\* The request ends without a write; of a rollback the update stays in the file.
Abandoned(s) ==
    /\ req' = [req EXCEPT ![s] = Idle]
    /\ doubtful' = IF req[s].op = "rollback" THEN doubtful \cup req[s].keys ELSE doubtful

ReadRefused(s) ==
    /\ Phase(s, "begun")
    /\ ~Applies(req[s])
    /\ Abandoned(s)
    /\ UNCHANGED <<which, files, row, due, apart, erased, crossed, blind, requests, faults>>

\* The transaction of the synchronisation: the row becomes what the file said,
\* with what the files of the agent's workspace say besides.
SyncRow(s) ==
    /\ Phase(s, "read") /\ req[s].op = "sync"
    /\ \E workspace \in [Enriched -> Values \cup {None}] :
         row' = [k \in Keys |-> IF req[s].copy[k] = None /\ k \in Enriched
                               THEN workspace[k] ELSE req[s].copy[k]]
    /\ apart' = IF Rivals(s) = {} THEN {} ELSE apart
    /\ req' = [req EXCEPT ![s] = Idle]
    /\ UNCHANGED <<which, files, due, erased, doubtful, crossed, blind, requests, faults>>

---------------------------------------------------------------------------
(* Writing *)

\* mutants: .env is written in place; all files are written beside themselves
TargetInPlace == "live"
TargetBeside == "temp"

\* .env is written beside itself, under one name for all requests.
Target == IF which = "env" THEN "temp" ELSE "live"

\* writeFile truncates the file when it opens it.
Open(s) ==
    /\ Phase(s, "read") /\ req[s].op # "sync"
    /\ req' = [req EXCEPT ![s].phase = "open", ![s].fd = Target]
    /\ IF Target = "temp" THEN temp' = Cut /\ UNCHANGED live ELSE live' = Cut /\ UNCHANGED temp
    /\ UNCHANGED <<which, row, history, requests, faults>>

At(fd) == IF fd = "live" THEN live ELSE IF fd = "temp" THEN temp ELSE Absent

Becomes(fd, c) ==
    /\ live' = IF fd = "live" THEN c ELSE live
    /\ temp' = IF fd = "temp" THEN c ELSE temp

\* Over what another wrote since the file was opened, the two may mix.
Results(s) == IF At(req[s].fd) = Cut THEN {req[s].copy} ELSE {req[s].copy, Cut}

After(s) == CASE which = "env" -> "written" [] req[s].op = "agent" -> "filed" [] OTHER -> "idle"

Answered(s) == due' = [k \in Keys |-> IF k \in req[s].keys THEN req[s].copy[k] ELSE due[k]]

\* The write is done: .env has to be renamed, an agent's row to be updated, a
\* rollback is over, and all else is answered.
Written(s) ==
    /\ Phase(s, "open")
    /\ \E c \in Results(s) : Becomes(req[s].fd, c)
    /\ IF After(s) = "idle"
       THEN /\ req' = [req EXCEPT ![s] = Idle]
            /\ IF req[s].op = "rollback" THEN UNCHANGED due ELSE Answered(s)
       ELSE /\ req' = [req EXCEPT ![s].phase = After(s)]
            /\ UNCHANGED due
    /\ apart' = IF req[s].op = "edit" THEN apart \cup req[s].keys ELSE apart
    /\ UNCHANGED <<which, row, erased, doubtful, crossed, blind, requests, faults>>

\* A write fails: what it has written stays.
WriteFails(s) ==
    /\ Phase(s, "open")
    /\ Fault
    /\ \E c \in {At(req[s].fd), Cut} : Becomes(req[s].fd, c)
    /\ Abandoned(s)
    /\ UNCHANGED <<which, row, due, apart, erased, crossed, blind, requests>>

\* Whose file is renamed under it goes on writing to it.
Moved(fd) == CASE fd = "temp" -> "live" [] fd = "live" -> "gone" [] OTHER -> fd

Rename(s) ==
    /\ Phase(s, "written")
    /\ IF temp = Absent
       THEN /\ req' = [req EXCEPT ![s] = Idle]
            /\ UNCHANGED <<files, due>>
       ELSE /\ req' = [t \in Slots |-> IF t = s \/ req[t] = Idle THEN Idle
                                       ELSE [req[t] EXCEPT !.fd = Moved(@)]]
            /\ live' = temp
            /\ temp' = Absent
            /\ Answered(s)
    /\ UNCHANGED <<which, row, apart, erased, doubtful, crossed, blind, requests, faults>>

\* The row as it was read, but for the fields that were given, which hold nothing
\* but what the request gave.
RowUpdated(s) ==
    /\ Phase(s, "filed")
    /\ \E replaced \in SUBSET Keys :
         row' = Merged(req[s].was, req[s].keys, req[s].value, replaced)
    /\ Answered(s)
    /\ apart' = apart \ req[s].keys
    /\ req' = [req EXCEPT ![s] = Idle]
    /\ UNCHANGED <<which, files, erased, doubtful, crossed, blind, requests, faults>>

NoRollback(s) == Idle  \* mutant: the file keeps an update the row did not get

\* "Best-effort rollback": what the row said is written to the file.
Rollback(s) == [req[s] EXCEPT !.phase = "begun", !.op = "rollback"]

RowFails(s) ==
    /\ Phase(s, "filed")
    /\ Fault
    /\ req' = [req EXCEPT ![s] = Rollback(s)]
    /\ UNCHANGED <<which, files, row, history, requests>>

\* The server stops.
Crash ==
    /\ Fault
    /\ live' \in IF \E s \in Slots : Phase(s, "open") /\ req[s].fd = "live"
                 THEN {live, Cut} ELSE {live}
    /\ doubtful' = doubtful \cup InFlight
    /\ req' = [s \in Slots |-> Idle]
    /\ UNCHANGED <<which, temp, row, due, apart, erased, crossed, blind, requests>>

---------------------------------------------------------------------------
Next ==
    \/ \E s \in Slots :
         \/ \E k \in Keys, v \in Values :
              \/ AddJob(s, k, v) \/ ToggleJob(s, k, v) \/ RemoveJob(s, k)
              \/ PostTokens(s, k, v)
              \/ Pull(s, k, v)
         \/ \E ks \in SUBSET Keys \ {{}} :
              \/ Cleanup(s, ks) \/ CleanupNow(s, ks)
              \/ DeleteVars(s, ks)
              \/ \E v \in Values :
                   \/ PutVars(s, ks, v) \/ PullAll(s, ks, v)
                   \/ EditConfig(s, ks, v)
                   \/ UpdateAgent(s, ks, v)
         \/ SyncAgents(s)
         \/ Read(s) \/ ReadRefused(s) \/ SyncRow(s)
         \/ Open(s) \/ Written(s) \/ WriteFails(s) \/ Rename(s) \/ RowUpdated(s) \/ RowFails(s)
    \/ \E ks \in SUBSET Keys \ {{}}, v \in Values : SetRow(ks, v)
    \/ Crash

Spec == Init /\ [][Next]_vars

---------------------------------------------------------------------------
(* Properties *)

Settled == Keys \ (doubtful \cup InFlight)

\* A change that was answered is in the file, and nothing else is, but for what
\* the code gives up:
\*  - entries of requests that overlapped or broke off, with what a rollback
\*    writes of leaves that one side alone had;
\*  - token records that one post of another workspace leaves out;
\*  - all of it once a file cut short was taken for an empty one.
\* No other entry is lost by a request that goes on with what it read.
AnswersAreKept ==
    live # Cut /\ ~blind =>
        \A k \in Settled \ erased : due[k] = IF live = Absent THEN None ELSE live[k]

\* .env is written beside itself and renamed: no crash and no failing write
\* leaves it cut short, unless requests overlapped.
EnvStaysWhole ==
    which = "env" /\ live = Cut => crossed

\* "Best-effort rollback to preserve consistency if DB update fails after gateway
\* write": what an agent's row says of a leaf that was not set on one side only is
\* what openclaw.json says, or comes from the agent's workspace where that says
\* nothing.  The file may say more, for it is merged leaf by leaf and the row field
\* by field.
RowAgreesWithConfig ==
    which = "config" /\ live # Cut =>
        \A k \in Settled \ apart :
            row[k] \in {None, live[k]} \/ (k \in Enriched /\ live[k] = None)
=============================================================================
