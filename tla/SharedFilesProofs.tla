-------------------------- MODULE SharedFilesProofs --------------------------
(***************************************************************************)
(* Proofs about the two modules whose requests overlap at files:           *)
(* SharedFiles, for any entries, requests and faults, and, in the second   *)
(* half, DataRooms, for any rooms, visitors, requests and sizes of the     *)
(* tables.  Each has its own state and its own specification.              *)
(***************************************************************************)
EXTENDS SharedFiles, DataRooms, SequenceTheorems, TLAPS

---------------------------------------------------------------------------
(* The inductive invariant *)

\* The copy of the file was made.
HasCopy(s) == req[s] # Idle /\ req[s].phase # "begun"

\* The file may be ahead of what was answered: s has begun to write to it.
Ahead(s) ==
    /\ req[s] # Idle
    /\ which # "env"
    /\ req[s].phase \in {"open", "filed"} \/ req[s].op = "rollback"

Certain == Keys \ (doubtful \cup erased)
CertainAhead == {k \in Certain : \A s \in Slots : Ahead(s) => k \notin req[s].keys}
InFile(k) == IF live = Absent THEN None ELSE live[k]

\* What a request may do with which file
OpsFit ==
    \A s \in Slots : req[s] # Idle =>
        /\ which = "config" <=> req[s].op \in {"edit", "agent", "sync", "rollback"}
        /\ req[s].op = "post" => which = "tokens"
        /\ req[s].phase = "filed" => req[s].op = "agent"
        /\ req[s].phase = "written" => which = "env"
        /\ req[s].phase = "open" /\ which # "env" => req[s].fd = "live"
        /\ req[s].op = "sync" => req[s].keys = {}
        /\ req[s].op = "agent" /\ HasCopy(s) =>
             \A k \in req[s].keys : req[s].copy[k] = req[s].value

\* Requests that overlap are doubtful, and so is one whose file was renamed under it.
Overlaps ==
    /\ \A s, t \in Slots : s # t /\ Active(s) /\ Active(t) =>
         crossed /\ req[s].keys \subseteq doubtful
    /\ \A s \in Slots :
         which = "env" /\ Phase(s, "open") /\ req[s].fd # "temp" =>
             crossed /\ req[s].keys \subseteq doubtful

\* .env.tmp is whole when it is renamed, unless requests overlapped.
EnvInv ==
    which = "env" /\ ~crossed =>
        /\ live # Cut
        /\ \A s \in Slots : (Phase(s, "open") => temp = Cut) /\ (Phase(s, "written") => temp # Cut)

\* Only a file whose requests go on without it is ever taken for an empty one, and
\* only token records are left out.
NeverBlind == which = "config" => ~blind /\ erased = {}

FileKept == live # Cut => \A k \in CertainAhead : due[k] = InFile(k)

CopyKept ==
    \A s \in Slots : HasCopy(s) =>
        \A k \in Certain :
            k \notin req[s].keys \/ req[s].op = "rollback" => req[s].copy[k] = due[k]

FiledIsThere ==
    \A s \in Slots : Phase(s, "filed") /\ live # Cut =>
        \A k \in Certain \cap req[s].keys : live[k] = req[s].copy[k]

\* What a row may say of a leaf the file has as d
Says(x, d, k) == x \in {None, d} \/ (k \in Enriched /\ d = None)

RowKept == which = "config" => \A k \in Certain \ apart : Says(row[k], due[k], k)

\* So does the row that an update of an agent read.
RowReadKept ==
    \A s \in Slots : req[s] # Idle /\ req[s].op \in {"agent", "rollback"} =>
        \A k \in Certain \ apart : Says(req[s].was[k], due[k], k)

\* Who writes alone finds the file as it left it.
WriteIsMine ==
    \A s \in Slots : req[s] # Idle /\ ~(req[s].keys \subseteq doubtful) =>
        /\ req[s].phase = "open" => At(Target) = Cut
        /\ req[s].phase = "written" => temp = req[s].copy

TempKept ==
    which = "env" /\ temp \in Content =>
        \A s \in Slots : Phase(s, "open") \/ Phase(s, "written") =>
            \A k \in Certain :
                \/ temp[k] = due[k]
                \/ \E t \in Slots : Phase(t, "written") /\ k \in req[t].keys

Kept ==
    /\ FileKept /\ CopyKept /\ FiledIsThere
    /\ RowKept /\ RowReadKept
    /\ TempKept

IInv ==
    /\ TypeOK /\ OpsFit /\ Overlaps /\ EnvInv /\ NeverBlind /\ WriteIsMine
    /\ ~blind => Kept

---------------------------------------------------------------------------
(* Requests *)

LEMMA Busy ==
    ASSUME TypeOK, NEW s \in Slots, req[s] # Idle
    PROVE  /\ req[s] \in Request
           /\ req[s].phase \in {"begun", "read", "open", "written", "filed"}
           /\ req[s].keys \subseteq Keys
           /\ req[s].value \in Values \cup {None}
           /\ req[s].copy \in Content /\ req[s].was \in Content
           /\ req[s].fd \in {"none", "temp", "live", "gone"}
<1>1. req[s] \in Request
  BY DEF TypeOK
<1>2. QED
  BY <1>1 DEF Request

LEMMA NotIdle ==
    ASSUME NEW r \in Request
    PROVE  r # Idle
BY DEF Request, Idle

\* What requests end, and more doubt, do not disturb.
LEMMA FewerFit ==
    ASSUME TypeOK, OpsFit, Overlaps,
           which' = which,
           \A t \in Slots : req'[t] = req[t] \/ req'[t] = Idle,
           crossed => crossed', doubtful \subseteq doubtful'
    PROVE  OpsFit' /\ Overlaps'
<1>1. OpsFit'
  BY DEF OpsFit, HasCopy
<1>2. Overlaps'
  BY DEF Overlaps, Active, Phase
<1>3. QED
  BY <1>1, <1>2

LEMMA InitSafe == Init => IInv
<1> SUFFICES ASSUME Init PROVE IInv
  OBVIOUS
<1>1. \A s \in Slots : req[s] = Idle
  BY DEF Init
<1>2. Empty \in Content
  BY DEF Empty, Content
<1>3. live \in Content \/ (live = Absent /\ which # "config")
  BY DEF Init
<1>4. TypeOK
  <2>1. req \in [Slots -> Request \cup {Idle}]
    BY DEF Init
  <2>2. live \in File /\ temp \in File
    BY <1>3 DEF Init, File
  <2>3. row \in Content /\ due \in Content
    BY <1>2, <1>3, FilesAssumption DEF Init, Content
  <2>4. requests \in 0..MaxRequests /\ faults \in 0..MaxFaults
    BY FilesAssumption DEF Init
  <2>5. QED
    BY <2>1, <2>2, <2>3, <2>4, <1>3, FilesAssumption DEF TypeOK, Init, Content
<1>5. OpsFit /\ Overlaps
  BY <1>1 DEF OpsFit, Overlaps, Active, Phase
<1>6. EnvInv /\ NeverBlind /\ WriteIsMine
  BY <1>1, <1>3, FilesAssumption DEF EnvInv, NeverBlind, WriteIsMine, Phase, Init, Content
<1>7. Kept
  <2>1. FileKept
    BY <1>3, FilesAssumption DEF FileKept, Init, CertainAhead, Certain, InFile, Empty, Content
  <2>2. CopyKept /\ FiledIsThere /\ RowReadKept /\ TempKept
    BY <1>1 DEF CopyKept, FiledIsThere, RowReadKept, TempKept, HasCopy, Phase
  <2>3. RowKept
    BY <1>3, FilesAssumption DEF RowKept, Says, Init, Content
  <2>4. QED
    BY <2>1, <2>2, <2>3 DEF Kept
<1>8. QED
  BY <1>4, <1>5, <1>6, <1>7 DEF IInv

LEMMA BeginSafe ==
    ASSUME IInv, NEW s \in Slots, NEW op, NEW ks \in SUBSET Keys, NEW v \in Values \cup {None},
           Begin(s, op, ks, v), op = "sync" => ks = {}
    PROVE  IInv'
<1> DEFINE r == [phase |-> "begun", op |-> op, keys |-> ks, value |-> v,
                 copy |-> Empty, was |-> IF op = "agent" THEN row ELSE Empty, fd |-> "none"]
<1> USE DEF IInv
<1>1. /\ which \in DOMAIN Ops /\ op \in Ops[which]
      /\ req[s] = Idle
      /\ UNCHANGED <<which, live, temp, row, due, apart, erased, blind, faults>>
      /\ requests < MaxRequests /\ requests' = requests + 1
  BY DEF Begin, TypeOK, Counted, files
<1>2. r \in Request
  <2>1. Empty \in Content
    BY DEF Empty, Content
  <2>2. op \in {"rollback"} \cup UNION {Ops[f] : f \in DOMAIN Ops}
    BY <1>1
  <2>3. QED
    BY <2>1, <2>2 DEF Request, TypeOK
<1>3. /\ req' \in [Slots -> Request \cup {Idle}]
      /\ req'[s] = r
      /\ \A t \in Slots \ {s} : req'[t] = req[t]
  BY <1>2 DEF Begin, TypeOK
<1>4. r # Idle
  BY <1>2, NotIdle
<1>5. /\ r.phase = "begun" /\ r.op = op /\ r.keys = ks
      /\ op = "agent" => r.was = row
  OBVIOUS
<1>6. op # "rollback"
  BY <1>1 DEF Ops
<1>7. op \in {"edit", "agent", "sync"} <=> which = "config"
  BY <1>1 DEF Ops
<1>7a. op = "post" => which = "tokens"
  BY <1>1 DEF Ops
<1>8. /\ crossed' \in BOOLEAN /\ doubtful' \subseteq Keys
      /\ doubtful \subseteq doubtful' /\ (crossed => crossed')
  <2>1. \A t \in Slots : req[t] # Idle => req[t].keys \subseteq Keys
    BY Busy
  <2>2. \A t \in Rivals(s) : req[t].keys \subseteq Keys
    BY <2>1 DEF Rivals, Active
  <2>3. CASE op = "agent"
    <3>1. UNION {req[t].keys : t \in Rivals(s)} \subseteq Keys
      BY <2>2
    <3>2. QED
      BY <2>3, <3>1 DEF Begin, Meets, TypeOK
  <2>4. CASE op # "agent"
    BY <2>4 DEF Begin, TypeOK
  <2>5. QED
    BY <2>3, <2>4
<1>9. \A t \in Slots \ {s} : (Active(t) <=> Active(t)') /\ (Ahead(t) <=> Ahead(t)')
                              /\ (HasCopy(t) <=> HasCopy(t)')
                              /\ (\A p : Phase(t, p) <=> Phase(t, p)')
  BY <1>1, <1>3 DEF Active, Ahead, HasCopy, Phase
<1>10. /\ ~Ahead(s)' /\ ~HasCopy(s)' /\ (Active(s)' <=> op = "agent")
       /\ \A p : Phase(s, p)' => p = "begun"
       /\ ~Ahead(s) /\ ~Active(s) /\ ~HasCopy(s) /\ \A p : ~Phase(s, p)
  BY <1>1, <1>3, <1>4, <1>5, <1>6 DEF Active, Ahead, HasCopy, Phase
<1>11. TypeOK'
  BY <1>1, <1>3, <1>8, FilesAssumption DEF TypeOK
<1>12. OpsFit'
  <2> SUFFICES ASSUME NEW t \in Slots, req'[t] # Idle PROVE OpsFit!(t)'
    BY DEF OpsFit
  <2>1. CASE t = s
    BY <2>1, <1>1, <1>3, <1>5, <1>6, <1>7, <1>7a, <1>10
  <2>2. CASE t # s
    BY <2>2, <1>1, <1>3, <1>9 DEF OpsFit
  <2>3. QED
    BY <2>1, <2>2
<1>13. Overlaps'
  <2>1. ASSUME NEW t \in Slots \ {s}, Active(s)', Active(t)'
        PROVE  crossed' /\ ks \subseteq doubtful' /\ req[t].keys \subseteq doubtful'
    <3>1. t \in Rivals(s)
      BY <2>1, <1>9 DEF Rivals
    <3>2. QED
      BY <2>1, <3>1, <1>10 DEF Begin, Meets
  <2>2. QED
    BY <2>1, <1>1, <1>3, <1>5, <1>8, <1>9, <1>10 DEF Overlaps
<1>14. EnvInv' /\ NeverBlind' /\ WriteIsMine'
  <2>1. EnvInv' /\ NeverBlind'
    BY <1>1, <1>3, <1>8, <1>9, <1>10 DEF EnvInv, NeverBlind
  <2>2. WriteIsMine'
    BY <1>8, <1>1, <1>3, <1>5 DEF WriteIsMine, At, Target
  <2>3. QED
    BY <2>1, <2>2
<1>15. ASSUME ~blind PROVE Kept'
  <2> USE <1>15 DEF Kept
  <2>0. Certain' \subseteq Certain
    BY <1>1, <1>8 DEF Certain
  <2>1. FileKept'
    <3>1. CertainAhead' \subseteq CertainAhead
      BY <2>0, <1>3, <1>9, <1>10 DEF CertainAhead
    <3>2. QED
      BY <3>1, <1>1 DEF FileKept, InFile
  <2>2. CopyKept' /\ FiledIsThere'
    BY <2>0, <1>1, <1>3, <1>9, <1>10 DEF CopyKept, FiledIsThere
  <2>3. RowKept'
    BY <2>0, <1>1 DEF RowKept
  <2>4. RowReadKept'
    <3> SUFFICES ASSUME NEW t \in Slots, req'[t] # Idle, req'[t].op \in {"agent", "rollback"},
                        NEW k \in Certain' \ apart'
                 PROVE  Says(req'[t].was[k], due'[k], k)
      BY DEF RowReadKept
    <3>1. k \in Certain \ apart
      BY <2>0, <1>1
    <3>2. CASE t = s
      BY <3>1, <3>2, <1>1, <1>3, <1>5, <1>6, <1>7 DEF RowKept
    <3>3. CASE t # s
      BY <3>1, <3>3, <1>1, <1>3 DEF RowReadKept
    <3>4. QED
      BY <3>2, <3>3
  <2>5. TempKept'
    BY <2>0, <1>1, <1>3, <1>9, <1>10 DEF TempKept
  <2>6. QED
    BY <2>1, <2>2, <2>3, <2>4, <2>5
<1>16. QED
  BY <1>1, <1>11, <1>12, <1>13, <1>14, <1>15

LEMMA SetRowSafe ==
    ASSUME IInv, NEW ks \in SUBSET Keys, NEW v \in Values, SetRow(ks, v)
    PROVE  IInv'
<1> USE DEF IInv
<1>1. /\ UNCHANGED <<which, live, temp, req, due, erased, doubtful, crossed, blind, faults>>
      /\ apart' = apart \cup ks /\ requests' = requests + 1 /\ requests < MaxRequests
      /\ \A k \in Keys \ ks : row'[k] \in {None, row[k]}
  BY DEF SetRow, Merged, files, Counted, TypeOK
<1>2. TypeOK'
  <2>1. row' \in Content
    BY DEF SetRow, Merged, TypeOK, Content
  <2>2. QED
    BY <1>1, <2>1, FilesAssumption DEF TypeOK
<1>3. OpsFit' /\ Overlaps' /\ EnvInv' /\ NeverBlind' /\ WriteIsMine'
  BY <1>1 DEF OpsFit, HasCopy, Overlaps, Active, Phase, EnvInv, NeverBlind, WriteIsMine, At, Target
<1>4. ASSUME ~blind PROVE Kept'
  <2> USE <1>4 DEF Kept
  <2>1. FileKept' /\ CopyKept' /\ FiledIsThere' /\ TempKept'
    BY <1>1 DEF FileKept, CertainAhead, Certain, Ahead, InFile, CopyKept, HasCopy, FiledIsThere,
                Phase, TempKept
  <2>2. RowKept' /\ RowReadKept'
    BY <1>1 DEF RowKept, RowReadKept, Certain, Says
  <2>3. QED
    BY <2>1, <2>2
<1>5. QED
  BY <1>1, <1>2, <1>3, <1>4

---------------------------------------------------------------------------
(* Reading *)

LEMMA LiveKind ==
    ASSUME TypeOK
    PROVE  /\ live \in Content \/ live = Absent \/ live = Cut
           /\ live \in Content => live # Absent /\ live # Cut
           /\ which = "config" => live # Absent
BY FilesAssumption DEF TypeOK, File, Content

LEMMA BasisType ==
    ASSUME TypeOK, NEW r
    PROVE  /\ Basis(r) \in Content
           /\ \A k \in Keys : live # Cut /\ r.op # "post" => Basis(r)[k] = InFile(k)
           /\ live = Absent => \A k \in Keys : Basis(r)[k] = None
<1>1. CASE live \in Content
  <2>1. \A k \in Keys : live[k] \in Values \cup {None}
    BY <1>1 DEF Content
  <2>2. QED
    BY <1>1, <2>1, LiveKind DEF Basis, Content, InFile
<1>2. CASE live \notin Content
  BY <1>2, LiveKind DEF Basis, Content, InFile
<1>3. QED
  BY <1>1, <1>2

LEMMA CopyType ==
    ASSUME TypeOK, NEW r \in Request
    PROVE  Changed(r) \in Content
<1>1. \A k \in Keys : Basis(r)[k] \in Values \cup {None}
  BY BasisType DEF Content
<1>2. r.value \in Values \cup {None} /\ \A k \in Keys : r.was[k] \in Values \cup {None}
  BY DEF Request, Content
<1>3. QED
  BY <1>1, <1>2 DEF Changed, Content

\* What a copy has for the entries that are not given up
LEMMA CopyMade ==
    ASSUME TypeOK, NEW r \in Request, live # Cut, NEW k \in Keys \ (NotPutBack(r) \cup LeftOut(r))
    PROVE  /\ r.op # "rollback" /\ k \in r.keys => Changed(r)[k] = r.value
           /\ r.op # "rollback" /\ k \notin r.keys => Changed(r)[k] = InFile(k)
           /\ r.op = "rollback" =>
                \/ /\ Changed(r)[k] = r.was[k] /\ k \notin apart
                   /\ r.was[k] # None /\ ~(k \in Enriched /\ due[k] = None)
                \/ Changed(r)[k] = InFile(k) /\ k \notin r.keys
<1>1. CASE r.op = "post"
  <2>1. k \notin r.keys => Basis(r)[k] = InFile(k)
    <3>1. CASE live \in Content
      BY <1>1, <3>1, LiveKind DEF LeftOut, InFile
    <3>2. CASE live \notin Content
      BY <3>2, LiveKind, BasisType DEF InFile
    <3>3. QED
      BY <3>1, <3>2
  <2>2. QED
    BY <1>1, <2>1 DEF Changed
<1>2. CASE r.op = "rollback"
  <2>1. Basis(r)[k] = InFile(k)
    BY <1>2, BasisType
  <2>2. /\ k \notin apart /\ (k \in r.keys => r.was[k] # None)
        /\ ~(k \in Enriched /\ due[k] = None)
    BY <1>2 DEF NotPutBack
  <2>3. QED
    BY <1>2, <2>1, <2>2 DEF Changed
<1>3. CASE r.op \notin {"post", "rollback"}
  <2>1. Basis(r)[k] = InFile(k)
    BY <1>3, BasisType
  <2>2. QED
    BY <1>3, <2>1 DEF Changed
<1>4. QED
  BY <1>1, <1>2, <1>3

LEMMA LostTypes ==
    ASSUME TypeOK, NEW s \in Slots, req[s] # Idle
    PROVE  NotPutBack(req[s]) \subseteq Keys /\ LeftOut(req[s]) \subseteq Keys
<1>1. req[s].keys \subseteq Keys /\ apart \subseteq Keys
  BY Busy DEF TypeOK
<1>2. NotPutBack(req[s]) \subseteq Keys
  BY <1>1, FilesAssumption DEF NotPutBack
<1>3. LeftOut(req[s]) \subseteq Keys
  BY DEF LeftOut
<1>4. QED
  BY <1>2, <1>3

LEMMA ReadSafe ==
    ASSUME IInv, NEW s \in Slots, Read(s)
    PROVE  IInv'
<1> DEFINE r == req[s]
<1> DEFINE new == [r EXCEPT !.phase = "read", !.copy = Changed(r)]
<1> USE DEF IInv
<1>1. /\ r # Idle /\ r.phase = "begun" /\ Applies(r)
      /\ UNCHANGED <<which, live, temp, row, due, apart, requests, faults>>
      /\ blind' = (blind \/ live = Cut)
  BY DEF Read, Phase, files
<1>2. r \in Request /\ r.keys \subseteq Keys
  BY <1>1, Busy
<1>3. Changed(r) \in Content
  BY <1>2, CopyType
<1>4. /\ new \in Request
      /\ new.phase = "read" /\ new.copy = Changed(r) /\ new.op = r.op /\ new.keys = r.keys
      /\ new.value = r.value /\ new.was = r.was /\ new.fd = r.fd
  BY <1>2, <1>3 DEF Request
<1>5. /\ req' \in [Slots -> Request \cup {Idle}]
      /\ req'[s] = new
      /\ \A t \in Slots \ {s} : req'[t] = req[t]
  BY <1>2, <1>4 DEF Read, TypeOK
<1>6. new # Idle
  BY <1>4, NotIdle
<1> HIDE DEF new
<1>7. /\ crossed' \in BOOLEAN /\ doubtful' \subseteq Keys /\ erased' \subseteq Keys
      /\ doubtful \subseteq doubtful' /\ erased \subseteq erased' /\ (crossed => crossed')
      /\ NotPutBack(r) \subseteq doubtful' /\ LeftOut(r) \subseteq erased'
  <2>1. \A t \in Slots : req[t] # Idle => req[t].keys \subseteq Keys
    BY Busy
  <2>2. UNION {req[t].keys : t \in Rivals(s)} \subseteq Keys
    BY <2>1 DEF Rivals, Active
  <2>3. NotPutBack(r) \subseteq Keys /\ LeftOut(r) \subseteq Keys
    BY <1>1, LostTypes
  <2>4. QED
    BY <2>2, <2>3, <1>2 DEF Read, Meets, TypeOK
<1>8. \A t \in Slots \ {s} : (Active(t) <=> Active(t)') /\ (Ahead(t) <=> Ahead(t)')
                              /\ (HasCopy(t) <=> HasCopy(t)')
                              /\ (\A p : Phase(t, p) <=> Phase(t, p)')
  BY <1>1, <1>5 DEF Active, Ahead, HasCopy, Phase
<1>9. /\ (Ahead(s)' <=> Ahead(s)) /\ HasCopy(s)' /\ Active(s)'
      /\ \A p : Phase(s, p)' => p = "read"
      /\ \A p : Phase(s, p) => p = "begun"
      /\ ~HasCopy(s)
  BY <1>1, <1>4, <1>5, <1>6 DEF Active, Ahead, HasCopy, Phase
<1>10. ASSUME NEW t \in Slots \ {s}, Active(t)
       PROVE  crossed' /\ r.keys \subseteq doubtful' /\ req[t].keys \subseteq doubtful'
  <2>1. t \in Rivals(s)
    BY <1>10 DEF Rivals
  <2>2. QED
    BY <2>1 DEF Read, Meets
<1>11. TypeOK'
  BY <1>1, <1>5, <1>7 DEF TypeOK
<1>12. r.op = "agent" => \A k \in r.keys : Changed(r)[k] = r.value
  BY <1>2 DEF Changed
<1>13. OpsFit'
  <2> SUFFICES ASSUME NEW t \in Slots, req'[t] # Idle PROVE OpsFit!(t)'
    BY DEF OpsFit
  <2>1. CASE t = s
    BY <2>1, <1>1, <1>4, <1>5, <1>12 DEF OpsFit
  <2>2. CASE t # s
    BY <2>2, <1>1, <1>5, <1>8 DEF OpsFit
  <2>3. QED
    BY <2>1, <2>2
<1>14. Overlaps'
  BY <1>1, <1>4, <1>5, <1>7, <1>8, <1>9, <1>10 DEF Overlaps
<1>15. EnvInv'
  BY <1>1, <1>5, <1>7, <1>8, <1>9 DEF EnvInv
<1>16. NeverBlind'
  <2>1. which = "config" => r.op \notin Tolerant
    BY <1>1 DEF OpsFit, Tolerant
  <2>2. which = "config" => live \in Content /\ r.op # "post"
    BY <2>1, <1>1 DEF Applies, Tolerant
  <2>3. which = "config" => erased' = erased
    BY <2>2 DEF Read, LeftOut
  <2>4. QED
    BY <2>2, <2>3, <1>1, LiveKind DEF NeverBlind
<1>17. WriteIsMine'
  BY <1>1, <1>4, <1>5, <1>7 DEF WriteIsMine, At, Target
<1>18. ASSUME ~blind' PROVE Kept'
  <2>0. Certain' \subseteq Certain /\ ~blind /\ live # Cut
    BY <1>1, <1>7, <1>18 DEF Certain
  <2> USE <2>0 DEF Kept
  <2>1. FileKept'
    <3>1. CertainAhead' \subseteq CertainAhead
      BY <1>4, <1>5, <1>8, <1>9 DEF CertainAhead
    <3>2. QED
      BY <3>1, <1>1 DEF FileKept, InFile
  <2>2. ASSUME NEW k \in Certain', k \notin r.keys
        PROVE  InFile(k) = due[k]
    <3>1. \A t \in Slots : Ahead(t) => k \notin req[t].keys
      <4>1. ASSUME NEW t \in Slots \ {s}, Ahead(t) PROVE Active(t)
        BY <4>1 DEF Ahead, Active
      <4>2. QED
        BY <4>1, <2>2, <1>10 DEF Certain
    <3>2. k \in CertainAhead
      BY <3>1, <2>2 DEF CertainAhead
    <3>3. QED
      BY <3>2 DEF FileKept
  <2>3. ASSUME NEW k \in Certain', k \notin r.keys \/ r.op = "rollback"
        PROVE  Changed(r)[k] = due[k]
    <3>1. k \in Keys \ (NotPutBack(r) \cup LeftOut(r))
      BY <2>3, <1>7 DEF Certain
    <3>2. CASE r.op # "rollback"
      BY <3>1, <3>2, <2>2, <2>3, <1>2, CopyMade
    <3>3. CASE r.op = "rollback"
      <4>1. \A i \in Certain \ apart : Says(r.was[i], due[i], i)
        BY <3>3, <1>1 DEF RowReadKept
      <4>2. CASE Changed(r)[k] = InFile(k) /\ k \notin r.keys
        BY <4>2, <2>2, <2>3
      <4>3. CASE /\ Changed(r)[k] = r.was[k] /\ k \notin apart
                 /\ r.was[k] # None /\ ~(k \in Enriched /\ due[k] = None)
        BY <4>1, <4>3, <2>0, <2>3 DEF Says
      <4>4. QED
        BY <3>1, <3>3, <4>2, <4>3, <1>2, CopyMade
    <3>4. QED
      BY <3>2, <3>3
  <2>4. CopyKept'
    <3> SUFFICES ASSUME NEW t \in Slots, HasCopy(t)', NEW k \in Certain',
                        k \notin req'[t].keys \/ req'[t].op = "rollback"
                 PROVE  req'[t].copy[k] = due[k]
      BY <1>1 DEF CopyKept
    <3>1. CASE t = s
      BY <3>1, <2>3, <1>4, <1>5
    <3>2. CASE t # s
      BY <3>2, <1>5, <1>8 DEF CopyKept
    <3>3. QED
      BY <3>1, <3>2
  <2>5. FiledIsThere'
    BY <1>1, <1>5, <1>8, <1>9 DEF FiledIsThere
  <2>6. RowKept'
    BY <1>1 DEF RowKept
  <2>7. RowReadKept'
    <3> SUFFICES ASSUME NEW t \in Slots, req'[t] # Idle, req'[t].op \in {"agent", "rollback"},
                        NEW k \in Certain' \ apart
                 PROVE  Says(req'[t].was[k], due[k], k)
      BY <1>1 DEF RowReadKept
    <3>1. CASE t = s
      BY <3>1, <1>1, <1>4, <1>5 DEF RowReadKept
    <3>2. CASE t # s
      BY <3>2, <1>5 DEF RowReadKept
    <3>3. QED
      BY <3>1, <3>2
  <2>8. TempKept'
    BY <1>1, <1>5, <1>8, <1>9 DEF TempKept
  <2>9. QED
    BY <2>1, <2>4, <2>5, <2>6, <2>7, <2>8
<1>19. QED
  BY <1>11, <1>13, <1>14, <1>15, <1>16, <1>17, <1>18

\* A request ends and leaves the files as they are.
LEMMA Dropped ==
    ASSUME IInv, NEW s \in Slots,
           UNCHANGED <<which, live, temp, due, crossed, erased, blind>>,
           req' = [req EXCEPT ![s] = Idle],
           doubtful \subseteq doubtful',
           Ahead(s) => req[s].keys \subseteq doubtful',
           Phase(s, "written") => temp = Absent
    PROVE  /\ req' \in [Slots -> Request \cup {Idle}]
           /\ OpsFit' /\ Overlaps' /\ EnvInv' /\ NeverBlind' /\ WriteIsMine'
           /\ ~blind => FileKept' /\ CopyKept' /\ FiledIsThere' /\ TempKept'
<1> USE DEF IInv
<1>1. /\ req' \in [Slots -> Request \cup {Idle}]
      /\ req'[s] = Idle
      /\ \A t \in Slots \ {s} : req'[t] = req[t]
  BY DEF TypeOK
<1>2. OpsFit' /\ Overlaps'
  BY <1>1, FewerFit
<1>3. EnvInv' /\ NeverBlind' /\ WriteIsMine'
  BY <1>1 DEF EnvInv, NeverBlind, Phase, WriteIsMine, At, Target
<1>4. ASSUME ~blind PROVE FileKept' /\ CopyKept' /\ FiledIsThere' /\ TempKept'
  <2> USE <1>4 DEF Kept
  <2>1. FileKept'
    <3>1. CertainAhead' \subseteq CertainAhead
      BY <1>1 DEF CertainAhead, Certain, Ahead
    <3>2. QED
      BY <3>1 DEF FileKept, InFile
  <2>2. CopyKept'
    BY <1>1 DEF CopyKept, HasCopy, Certain
  <2>3. FiledIsThere'
    BY <1>1 DEF FiledIsThere, Phase, Certain
  <2>4. TempKept'
    <3>1. CASE Phase(s, "written")
      BY <3>1, FilesAssumption DEF TempKept, Content
    <3>2. CASE ~Phase(s, "written")
      BY <3>2, <1>1 DEF TempKept, Phase, Certain
    <3>3. QED
      BY <3>1, <3>2
  <2>5. QED
    BY <2>1, <2>2, <2>3, <2>4
<1>5. QED
  BY <1>1, <1>2, <1>3, <1>4

LEMMA ReadRefusedSafe ==
    ASSUME IInv, NEW s \in Slots, ReadRefused(s)
    PROVE  IInv'
<1> USE DEF IInv
<1>1. /\ req[s] # Idle /\ req[s].phase = "begun"
      /\ UNCHANGED <<which, live, temp, row, due, apart, crossed, erased, blind, requests, faults>>
      /\ req' = [req EXCEPT ![s] = Idle]
  BY DEF ReadRefused, Phase, files, Abandoned
<1>2. req[s].keys \subseteq Keys
  BY <1>1, Busy
<1>3. doubtful \subseteq doubtful' /\ doubtful' \subseteq Keys
  BY <1>2 DEF ReadRefused, Abandoned, TypeOK
<1>4. Ahead(s) => req[s].keys \subseteq doubtful'
  BY <1>1 DEF Ahead, ReadRefused, Abandoned
<1>5. ~Phase(s, "written")
  BY <1>1 DEF Phase
<1>6. /\ req' \in [Slots -> Request \cup {Idle}]
      /\ OpsFit' /\ Overlaps' /\ EnvInv' /\ NeverBlind' /\ WriteIsMine'
      /\ ~blind => FileKept' /\ CopyKept' /\ FiledIsThere' /\ TempKept'
  BY <1>1, <1>3, <1>4, <1>5, Dropped
<1>7. TypeOK'
  BY <1>1, <1>3, <1>6 DEF TypeOK
<1>8. ASSUME ~blind PROVE RowKept' /\ RowReadKept'
  <2>1. RowKept'
    BY <1>1, <1>3, <1>8 DEF Kept, RowKept, Certain
  <2>2. RowReadKept'
    BY <1>1, <1>3, <1>8 DEF Kept, RowReadKept, Certain, TypeOK
  <2>3. QED
    BY <2>1, <2>2
<1>9. QED
  BY <1>1, <1>6, <1>7, <1>8 DEF Kept

LEMMA SyncRowSafe ==
    ASSUME IInv, NEW s \in Slots, SyncRow(s)
    PROVE  IInv'
<1> USE DEF IInv
<1>1. /\ req[s] # Idle /\ req[s].phase = "read" /\ req[s].op = "sync"
      /\ UNCHANGED <<which, live, temp, due, erased, doubtful, crossed, blind, requests, faults>>
      /\ req' = [req EXCEPT ![s] = Idle]
      /\ \E workspace \in [Enriched -> Values \cup {None}] :
           row' = [k \in Keys |-> IF req[s].copy[k] = None /\ k \in Enriched
                                 THEN workspace[k] ELSE req[s].copy[k]]
      /\ apart' = IF Rivals(s) = {} THEN {} ELSE apart
  BY DEF SyncRow, Phase, files
<1>2. req[s].keys = {} /\ req[s].copy \in Content
  BY <1>1, Busy DEF OpsFit
<1>2a. /\ row' \in Content
       /\ \A k \in Keys : Says(row'[k], req[s].copy[k], k)
  BY <1>1, <1>2 DEF Content, Says
<1>3. ~Ahead(s) /\ ~Phase(s, "written") /\ HasCopy(s)
  BY <1>1 DEF Ahead, Phase, HasCopy
<1>4. /\ req' \in [Slots -> Request \cup {Idle}]
      /\ OpsFit' /\ Overlaps' /\ EnvInv' /\ NeverBlind' /\ WriteIsMine'
      /\ ~blind => FileKept' /\ CopyKept' /\ FiledIsThere' /\ TempKept'
  BY <1>1, <1>3, Dropped
<1>5. TypeOK'
  BY <1>1, <1>2a, <1>4 DEF TypeOK
<1>6. ASSUME ~blind PROVE RowKept' /\ RowReadKept'
  <2>1. \A k \in Certain : Says(row'[k], due[k], k)
    BY <1>1, <1>2, <1>2a, <1>3, <1>6 DEF Kept, CopyKept, Certain
  <2>2. RowKept'
    BY <2>1, <1>1 DEF RowKept, Certain
  <2>3. ASSUME NEW t \in Slots, req'[t] # Idle, req'[t].op \in {"agent", "rollback"}
        PROVE  t \in Rivals(s) /\ req'[t] = req[t]
    BY <2>3, <1>1 DEF Rivals, Active, TypeOK
  <2>4. RowReadKept'
    BY <2>3, <1>1, <1>6 DEF Kept, RowReadKept, Certain
  <2>5. QED
    BY <2>2, <2>4
<1>7. QED
  BY <1>1, <1>4, <1>5, <1>6 DEF Kept

---------------------------------------------------------------------------
(* Writing *)

LEMMA OpenSafe ==
    ASSUME IInv, NEW s \in Slots, Open(s)
    PROVE  IInv'
<1> DEFINE r == req[s]
<1> DEFINE new == [r EXCEPT !.phase = "open", !.fd = Target]
<1> USE DEF IInv
<1>1. /\ r # Idle /\ r.phase = "read" /\ r.op # "sync"
      /\ UNCHANGED <<which, row, due, apart, erased, doubtful, crossed, blind, requests, faults>>
  BY DEF Open, Phase, history
<1>2. r \in Request
  BY <1>1, Busy
<1>3. Target = IF which = "env" THEN "temp" ELSE "live"
  BY DEF Target
<1>4. /\ new \in Request
      /\ new.phase = "open" /\ new.copy = r.copy /\ new.op = r.op /\ new.keys = r.keys
      /\ new.value = r.value /\ new.was = r.was /\ new.fd = Target
  BY <1>2, <1>3 DEF Request
<1>5. /\ req' \in [Slots -> Request \cup {Idle}]
      /\ req'[s] = new
      /\ \A t \in Slots \ {s} : req'[t] = req[t]
  BY <1>2, <1>4 DEF Open, TypeOK
<1>6. new # Idle
  BY <1>4, NotIdle
<1> HIDE DEF new
<1>7. /\ which = "env" => temp' = Cut /\ live' = live
      /\ which # "env" => live' = Cut /\ temp' = temp
  BY <1>3 DEF Open
<1>8. \A t \in Slots \ {s} : (Active(t) <=> Active(t)') /\ (Ahead(t) <=> Ahead(t)')
                              /\ (HasCopy(t) <=> HasCopy(t)')
                              /\ (\A p : Phase(t, p) <=> Phase(t, p)')
  BY <1>1, <1>5 DEF Active, Ahead, HasCopy, Phase
<1>9. /\ HasCopy(s)' /\ HasCopy(s) /\ Active(s)' /\ Active(s)
      /\ Phase(s, "open")' /\ (\A p : Phase(s, p)' => p = "open")
      /\ (Ahead(s) => Ahead(s)')
  BY <1>1, <1>4, <1>5, <1>6 DEF Active, Ahead, HasCopy, Phase
<1>10. \A t \in Slots \ {s} : Phase(t, "open") \/ Phase(t, "written") \/ Phase(t, "filed") => Active(t)
  BY DEF Phase, Active
<1>11. TypeOK'
  BY <1>1, <1>5, <1>7, FilesAssumption DEF TypeOK, File
<1>12. OpsFit'
  <2> SUFFICES ASSUME NEW t \in Slots, req'[t] # Idle PROVE OpsFit!(t)'
    BY DEF OpsFit
  <2>1. CASE t = s
    BY <2>1, <1>1, <1>3, <1>4, <1>5, <1>9 DEF OpsFit
  <2>2. CASE t # s
    BY <2>2, <1>1, <1>5, <1>8 DEF OpsFit
  <2>3. QED
    BY <2>1, <2>2
<1>13. Overlaps'
  BY <1>1, <1>3, <1>4, <1>5, <1>8, <1>9 DEF Overlaps
<1>14. EnvInv' /\ NeverBlind'
  <2>1. EnvInv'
    <3> SUFFICES ASSUME which = "env", ~crossed, NEW t \in Slots
                 PROVE  /\ live' # Cut
                        /\ Phase(t, "open")' => temp' = Cut
                        /\ Phase(t, "written")' => temp' # Cut
      BY <1>1 DEF EnvInv
    <3>1. \A u \in Slots \ {s} : ~Active(u)
      BY <1>9 DEF Overlaps
    <3>2. t # s => ~Phase(t, "open")' /\ ~Phase(t, "written")'
      BY <3>1, <1>8, <1>10
    <3>3. QED
      BY <3>2, <1>7, <1>9 DEF EnvInv
  <2>2. QED
    BY <2>1, <1>1 DEF NeverBlind
<1>15. WriteIsMine'
  <2> SUFFICES ASSUME NEW t \in Slots, req'[t] # Idle, ~(req'[t].keys \subseteq doubtful)
               PROVE  /\ req'[t].phase = "open" => At(Target)' = Cut
                      /\ req'[t].phase = "written" => temp' = req'[t].copy
    BY <1>1 DEF WriteIsMine
  <2>1. CASE t = s
    BY <2>1, <1>1, <1>4, <1>5, <1>7 DEF At, Target
  <2>2. CASE t # s
    <3>1. ~Active(t)
      BY <2>2, <1>5, <1>9 DEF Overlaps
    <3>2. QED
      BY <2>2, <3>1, <1>5 DEF Active
  <2>3. QED
    BY <2>1, <2>2
<1>16. ASSUME ~blind PROVE Kept'
  <2> USE <1>16 DEF Kept
  <2>1. FileKept'
    <3>1. CASE which # "env"
      BY <3>1, <1>7 DEF FileKept
    <3>2. CASE which = "env"
      <4>1. CertainAhead' \subseteq CertainAhead
        BY <3>2, <1>1 DEF CertainAhead, Certain, Ahead
      <4>2. QED
        BY <3>2, <4>1, <1>1, <1>7 DEF FileKept, InFile
    <3>3. QED
      BY <3>1, <3>2
  <2>2. CopyKept'
    BY <1>1, <1>4, <1>5, <1>8, <1>9 DEF CopyKept, Certain
  <2>3. FiledIsThere'
    BY <1>1, <1>5, <1>7, <1>8, <1>9 DEF FiledIsThere, OpsFit, Phase, Certain
  <2>4. RowKept'
    BY <1>1 DEF RowKept, Certain
  <2>5. RowReadKept'
    BY <1>1, <1>4, <1>5 DEF RowReadKept, Certain
  <2>6. TempKept'
    <3>1. CASE which = "env"
      BY <3>1, <1>1, <1>7, FilesAssumption DEF TempKept, Content
    <3>2. CASE which # "env"
      BY <3>2, <1>1 DEF TempKept
    <3>3. QED
      BY <3>1, <3>2
  <2>7. QED
    BY <2>1, <2>2, <2>3, <2>4, <2>5, <2>6
<1>17. QED
  BY <1>1, <1>11, <1>12, <1>13, <1>14, <1>15, <1>16

\* What a write that goes through leaves in the file it goes to
LEMMA WriteResult ==
    ASSUME IInv, NEW s \in Slots, Phase(s, "open"), NEW c \in Results(s)
    PROVE  /\ c \in File /\ c # Absent
           /\ c # Cut => c = req[s].copy /\ c \in Content
           /\ which # "env" => req[s].fd = "live"
           /\ ~(req[s].keys \subseteq doubtful) \/ (which = "env" /\ ~crossed) =>
                c = req[s].copy /\ (which = "env" => req[s].fd = "temp")
<1> USE DEF IInv
<1>1. /\ req[s] # Idle /\ req[s].phase = "open"
      /\ req[s].keys \subseteq Keys /\ req[s].copy \in Content
  BY Busy DEF Phase
<1>2. c = req[s].copy \/ c = Cut
  BY DEF Results
<1>3. which # "env" => req[s].fd = "live"
  BY <1>1 DEF OpsFit
<1>4. c \in File /\ c # Absent /\ (c # Cut => c = req[s].copy /\ c \in Content)
  BY <1>1, <1>2, FilesAssumption DEF File, Content
<1>5. ASSUME ~(req[s].keys \subseteq doubtful) \/ (which = "env" /\ ~crossed)
      PROVE  At(req[s].fd) = Cut /\ (which = "env" => req[s].fd = "temp")
  <2>1. which = "env" => req[s].fd = "temp"
    BY <1>5 DEF Overlaps
  <2>2. req[s].fd = Target
    BY <1>3, <2>1 DEF Target
  <2>3. CASE ~(req[s].keys \subseteq doubtful)
    BY <2>1, <2>2, <2>3, <1>1 DEF WriteIsMine
  <2>4. CASE which = "env" /\ ~crossed
    BY <2>1, <2>4 DEF EnvInv, At
  <2>5. QED
    BY <1>5, <2>1, <2>3, <2>4
<1>6. QED
  BY <1>3, <1>4, <1>5 DEF Results

\* Who writes to a file, writes alone or is in doubt.
LEMMA WritesAlone ==
    ASSUME IInv, NEW s \in Slots, Active(s), NEW t \in Slots \ {s}
    PROVE  /\ \A p \in {"read", "open", "written", "filed"} : Phase(t, p) => Active(t)
           /\ Ahead(t) \/ HasCopy(t) => Active(t)
           /\ Active(t) => crossed /\ req[s].keys \subseteq doubtful /\ req[t].keys \subseteq doubtful
BY DEF IInv, Active, Phase, Ahead, HasCopy, Overlaps

\* .env.tmp is written.
LEMMA WrittenBesideSafe ==
    ASSUME IInv, NEW s \in Slots, Written(s), which = "env"
    PROVE  IInv'
<1> DEFINE r == req[s]
<1> DEFINE new == [r EXCEPT !.phase = "written"]
<1> USE DEF IInv
<1>1. /\ r # Idle /\ r.phase = "open" /\ Phase(s, "open")
      /\ UNCHANGED <<which, row, due, apart, erased, doubtful, crossed, blind, requests, faults>>
      /\ req' = [req EXCEPT ![s] = new]
  BY DEF Written, Phase, After, OpsFit
<1>2. r \in Request /\ r.copy \in Content
  BY <1>1, Busy
<1>3. PICK c \in Results(s) : Becomes(r.fd, c)
  BY DEF Written
<1>4. /\ c \in File /\ c # Absent
      /\ c # Cut => c = r.copy /\ c \in Content
      /\ ~(r.keys \subseteq doubtful) \/ ~crossed => c = r.copy /\ r.fd = "temp"
  BY <1>1, WriteResult
<1>5. /\ new \in Request
      /\ new.phase = "written" /\ new.copy = r.copy /\ new.op = r.op /\ new.keys = r.keys
      /\ new.value = r.value /\ new.was = r.was /\ new.fd = r.fd
  BY <1>2 DEF Request
<1>6. /\ req' \in [Slots -> Request \cup {Idle}]
      /\ req'[s] = new
      /\ \A t \in Slots \ {s} : req'[t] = req[t]
  BY <1>1, <1>5 DEF TypeOK
<1>7. new # Idle
  BY <1>5, NotIdle
<1> HIDE DEF new
<1>8. /\ r.fd = "temp" => temp' = c /\ live' = live
      /\ r.fd = "live" => live' = c /\ temp' = temp
      /\ r.fd \notin {"temp", "live"} => live' = live /\ temp' = temp
  BY <1>3 DEF Becomes
<1>9. /\ Active(s) /\ Active(s)' /\ HasCopy(s) /\ Phase(s, "written")'
      /\ \A p : Phase(s, p)' => p = "written"
  BY <1>1, <1>5, <1>6, <1>7 DEF Active, HasCopy, Phase
<1>10. \A t \in Slots \ {s} : (Active(t) <=> Active(t)') /\ (HasCopy(t) <=> HasCopy(t)')
                              /\ (\A p : Phase(t, p) <=> Phase(t, p)')
  BY <1>6 DEF Active, HasCopy, Phase
<1>11. \A t \in Slots \ {s} : Phase(t, "open") \/ Phase(t, "written") => Active(t)
  BY <1>9, WritesAlone
<1>12. TypeOK'
  BY <1>1, <1>4, <1>6, <1>8 DEF TypeOK
<1>13. OpsFit'
  <2> SUFFICES ASSUME NEW t \in Slots, req'[t] # Idle PROVE OpsFit!(t)'
    BY DEF OpsFit
  <2>1. CASE t = s
    BY <2>1, <1>1, <1>5, <1>6, <1>9 DEF OpsFit
  <2>2. CASE t # s
    BY <2>2, <1>1, <1>6, <1>10 DEF OpsFit
  <2>3. QED
    BY <2>1, <2>2
<1>14. Overlaps'
  BY <1>1, <1>5, <1>6, <1>9, <1>10 DEF Overlaps
<1>15. EnvInv' /\ NeverBlind'
  <2>1. ASSUME ~crossed PROVE \A t \in Slots \ {s} : ~Active(t)
    BY <2>1, <1>9, WritesAlone
  <2>2. ~crossed => temp' # Cut /\ live' = live
    BY <1>2, <1>4, <1>8, FilesAssumption DEF Content
  <2>3. QED
    BY <2>1, <2>2, <1>1, <1>9, <1>10, <1>11 DEF EnvInv, NeverBlind
<1>16. WriteIsMine'
  <2> SUFFICES ASSUME NEW t \in Slots, req'[t] # Idle, ~(req'[t].keys \subseteq doubtful)
               PROVE  /\ req'[t].phase = "open" => At(Target)' = Cut
                      /\ req'[t].phase = "written" => temp' = req'[t].copy
    BY <1>1 DEF WriteIsMine
  <2>1. CASE t = s
    BY <2>1, <1>4, <1>5, <1>6, <1>8
  <2>2. CASE t # s
    <3>1. ~Active(t)
      BY <2>2, <1>6, <1>9, WritesAlone
    <3>2. QED
      BY <2>2, <3>1, <1>6 DEF Active
  <2>3. QED
    BY <2>1, <2>2
<1>17. ASSUME ~blind PROVE Kept'
  <2> USE <1>17 DEF Kept
  <2>1. \A k \in Certain \ r.keys : r.copy[k] = due[k]
    BY <1>9 DEF CopyKept
  <2>2. FileKept'
    <3>1. CertainAhead' = CertainAhead /\ CertainAhead = Certain
      BY <1>1 DEF CertainAhead, Certain, Ahead
    <3>2. CASE r.fd = "live"
      <4>1. r.keys \subseteq doubtful
        BY <3>2, <1>4
      <4>2. live' # Cut => live' = r.copy /\ live' # Absent
        BY <3>2, <1>4, <1>8
      <4>3. QED
        BY <4>1, <4>2, <3>1, <2>1, <1>1 DEF FileKept, InFile, Certain
    <3>3. CASE r.fd # "live"
      BY <3>1, <3>3, <1>1, <1>8 DEF FileKept, InFile
    <3>4. QED
      BY <3>2, <3>3
  <2>3. CopyKept'
    BY <1>1, <1>5, <1>6, <1>9, <1>10 DEF CopyKept, Certain
  <2>4. FiledIsThere' /\ RowKept' /\ RowReadKept'
    BY <1>1, <1>13 DEF FiledIsThere, RowKept, RowReadKept, OpsFit, Phase
  <2>5. TempKept'
    <3> SUFFICES ASSUME temp' \in Content, NEW t \in Slots, Phase(t, "open")' \/ Phase(t, "written")',
                        NEW k \in Certain
                 PROVE  \/ temp'[k] = due[k]
                        \/ \E u \in Slots : Phase(u, "written")' /\ k \in req'[u].keys
      BY <1>1 DEF TempKept, Certain
    <3>1. CASE r.fd = "temp"
      <4>1. temp' = r.copy
        BY <3>1, <1>4, <1>8, FilesAssumption DEF Content
      <4>2. QED
        BY <4>1, <2>1, <1>5, <1>6, <1>9
    <3>2. CASE r.fd # "temp"
      <4>1. temp' = temp /\ (Phase(t, "open") \/ Phase(t, "written"))
        BY <3>2, <1>1, <1>8, <1>10
      <4>2. \/ temp[k] = due[k]
            \/ \E u \in Slots : Phase(u, "written") /\ k \in req[u].keys
        BY <4>1 DEF TempKept
      <4>3. \A u \in Slots : Phase(u, "written") => u # s
        BY <1>1 DEF Phase
      <4>4. QED
        BY <4>1, <4>2, <4>3, <1>6, <1>10
    <3>3. QED
      BY <3>1, <3>2
  <2>6. QED
    BY <2>2, <2>3, <2>4, <2>5
<1>18. QED
  BY <1>1, <1>12, <1>13, <1>14, <1>15, <1>16, <1>17

\* openclaw.json has the update of an agent.
LEMMA WrittenFiledSafe ==
    ASSUME IInv, NEW s \in Slots, Written(s), which # "env", req[s].op = "agent"
    PROVE  IInv'
<1> DEFINE r == req[s]
<1> DEFINE new == [r EXCEPT !.phase = "filed"]
<1> USE DEF IInv
<1>1. /\ r # Idle /\ r.phase = "open" /\ Phase(s, "open")
      /\ UNCHANGED <<which, row, due, apart, erased, doubtful, crossed, blind, requests, faults>>
      /\ req' = [req EXCEPT ![s] = new]
  BY DEF Written, Phase, After
<1>2. r \in Request /\ r.copy \in Content /\ which = "config"
  BY <1>1, Busy DEF OpsFit
<1>3. PICK c \in Results(s) : Becomes(r.fd, c)
  BY DEF Written
<1>4. /\ c \in File /\ c # Absent
      /\ c # Cut => c = r.copy
      /\ r.fd = "live"
  BY <1>1, WriteResult
<1>5. /\ new \in Request
      /\ new.phase = "filed" /\ new.copy = r.copy /\ new.op = r.op /\ new.keys = r.keys
      /\ new.value = r.value /\ new.was = r.was /\ new.fd = r.fd
  BY <1>2 DEF Request
<1>6. /\ req' \in [Slots -> Request \cup {Idle}]
      /\ req'[s] = new
      /\ \A t \in Slots \ {s} : req'[t] = req[t]
  BY <1>1, <1>5 DEF TypeOK
<1>7. new # Idle
  BY <1>5, NotIdle
<1> HIDE DEF new
<1>8. live' = c /\ temp' = temp
  BY <1>3, <1>4 DEF Becomes
<1>9. /\ Active(s) /\ Active(s)' /\ HasCopy(s) /\ Ahead(s) /\ Ahead(s)'
      /\ \A p : Phase(s, p)' => p = "filed"
  BY <1>1, <1>5, <1>6, <1>7 DEF Active, HasCopy, Phase, Ahead
<1>10. \A t \in Slots \ {s} : (Active(t) <=> Active(t)') /\ (HasCopy(t) <=> HasCopy(t)')
                              /\ (Ahead(t) <=> Ahead(t)')
                              /\ (\A p : Phase(t, p) <=> Phase(t, p)')
  BY <1>1, <1>6 DEF Active, HasCopy, Phase, Ahead
<1>11. TypeOK'
  BY <1>1, <1>4, <1>6, <1>8 DEF TypeOK
<1>12. OpsFit'
  <2> SUFFICES ASSUME NEW t \in Slots, req'[t] # Idle PROVE OpsFit!(t)'
    BY DEF OpsFit
  <2>1. CASE t = s
    BY <2>1, <1>1, <1>5, <1>6, <1>9 DEF OpsFit
  <2>2. CASE t # s
    BY <2>2, <1>1, <1>6, <1>10 DEF OpsFit
  <2>3. QED
    BY <2>1, <2>2
<1>13. Overlaps' /\ EnvInv' /\ NeverBlind'
  BY <1>1, <1>2, <1>5, <1>6, <1>9, <1>10 DEF Overlaps, EnvInv, NeverBlind
<1>14. ASSUME NEW t \in Slots \ {s}, req[t] # Idle, ~(req[t].keys \subseteq doubtful)
       PROVE  req[t].phase = "begun"
  BY <1>14, <1>9, WritesAlone DEF Active
<1>15. WriteIsMine'
  BY <1>1, <1>5, <1>6, <1>14 DEF WriteIsMine
<1>16. ASSUME ~blind PROVE Kept'
  <2> USE <1>16 DEF Kept
  <2>1. FileKept'
    <3>1. CertainAhead' = CertainAhead
      BY <1>1, <1>5, <1>6, <1>9, <1>10 DEF CertainAhead, Certain
    <3>2. \A k \in CertainAhead : r.copy[k] = due[k]
      BY <1>9 DEF CopyKept, CertainAhead
    <3>3. QED
      BY <3>1, <3>2, <1>1, <1>4, <1>8 DEF FileKept, InFile
  <2>2. CopyKept'
    BY <1>1, <1>5, <1>6, <1>9, <1>10 DEF CopyKept, Certain
  <2>3. FiledIsThere'
    <3> SUFFICES ASSUME NEW t \in Slots, Phase(t, "filed")', live' # Cut,
                        NEW k \in Certain \cap req'[t].keys
                 PROVE  live'[k] = req'[t].copy[k]
      BY <1>1 DEF FiledIsThere, Certain
    <3>1. CASE t = s
      BY <3>1, <1>4, <1>5, <1>6, <1>8
    <3>2. CASE t # s
      BY <3>2, <1>6, <1>9, <1>10, WritesAlone DEF Certain
    <3>3. QED
      BY <3>1, <3>2
  <2>4. RowKept'
    BY <1>1 DEF RowKept, Certain
  <2>5. RowReadKept'
    BY <1>1, <1>5, <1>6 DEF RowReadKept, Certain
  <2>6. TempKept'
    BY <1>1, <1>2 DEF TempKept
  <2>7. QED
    BY <2>1, <2>2, <2>3, <2>4, <2>5, <2>6
<1>17. QED
  BY <1>1, <1>11, <1>12, <1>13, <1>15, <1>16

\* A write in place that ends the request
LEMMA WrittenIdleSafe ==
    ASSUME IInv, NEW s \in Slots, Written(s), which # "env", req[s].op # "agent"
    PROVE  IInv'
<1> DEFINE r == req[s]
<1> USE DEF IInv
<1>1. /\ r # Idle /\ r.phase = "open" /\ Phase(s, "open")
      /\ UNCHANGED <<which, row, erased, doubtful, crossed, blind, requests, faults>>
      /\ req' = [req EXCEPT ![s] = Idle]
      /\ IF r.op = "rollback" THEN due' = due ELSE Answered(s)
      /\ apart' = IF r.op = "edit" THEN apart \cup r.keys ELSE apart
  BY DEF Written, Phase, After
<1>2. r.keys \subseteq Keys /\ r.copy \in Content
  BY <1>1, Busy
<1>3. PICK c \in Results(s) : Becomes(r.fd, c)
  BY DEF Written
<1>4. /\ c \in File /\ c # Absent
      /\ c # Cut => c = r.copy
      /\ r.fd = "live"
  BY <1>1, WriteResult
<1>5. /\ req' \in [Slots -> Request \cup {Idle}]
      /\ req'[s] = Idle
      /\ \A t \in Slots \ {s} : req'[t] = req[t]
  BY <1>1 DEF TypeOK
<1>6. live' = c /\ temp' = temp
  BY <1>3, <1>4 DEF Becomes
<1>7. Active(s) /\ HasCopy(s)
  BY <1>1 DEF Active, HasCopy
<1>8. /\ \A k \in Keys \ r.keys : due'[k] = due[k]
      /\ r.op = "rollback" => due' = due
      /\ r.op # "rollback" => \A k \in r.keys : due'[k] = r.copy[k]
      /\ due' \in Content
  <2>1. CASE r.op = "rollback"
    BY <2>1, <1>1 DEF TypeOK
  <2>2. CASE r.op # "rollback"
    <3>1. due' = [k \in Keys |-> IF k \in r.keys THEN r.copy[k] ELSE due[k]]
      BY <2>2, <1>1 DEF Answered
    <3>2. \A k \in Keys : r.copy[k] \in Values \cup {None} /\ due[k] \in Values \cup {None}
      BY <1>2 DEF TypeOK, Content
    <3>3. due' \in Content
      BY <3>1, <3>2 DEF Content
    <3>4. QED
      BY <2>2, <3>1, <3>3, <1>2
  <2>3. QED
    BY <2>1, <2>2
<1>9. TypeOK'
  BY <1>1, <1>2, <1>4, <1>5, <1>6, <1>8 DEF TypeOK
<1>10. OpsFit' /\ Overlaps'
  BY <1>1, <1>5, FewerFit
<1>11. EnvInv' /\ NeverBlind'
  BY <1>1 DEF EnvInv, NeverBlind
<1>12. ASSUME NEW t \in Slots \ {s}, req[t] # Idle, ~(req[t].keys \subseteq doubtful)
       PROVE  req[t].phase = "begun"
  BY <1>12, <1>7, WritesAlone DEF Active
<1>13. WriteIsMine'
  BY <1>1, <1>5, <1>12 DEF WriteIsMine
<1>14. ASSUME ~blind PROVE Kept'
  <2> USE <1>14 DEF Kept
  <2>1. FileKept'
    <3>1. \A k \in Certain : r.copy[k] = due'[k]
      BY <1>7, <1>8 DEF CopyKept, Certain
    <3>2. CertainAhead' \subseteq Certain
      BY <1>1 DEF CertainAhead, Certain
    <3>3. QED
      BY <3>1, <3>2, <1>4, <1>6 DEF FileKept, InFile
  <2>2. CopyKept'
    <3> SUFFICES ASSUME NEW t \in Slots, HasCopy(t)', NEW k \in Certain,
                        k \notin req'[t].keys \/ req'[t].op = "rollback"
                 PROVE  req'[t].copy[k] = due'[k]
      BY <1>1 DEF CopyKept, Certain
    <3>1. t # s /\ req'[t] = req[t] /\ HasCopy(t)
      BY <1>5 DEF HasCopy
    <3>2. k \notin r.keys
      BY <3>1, <1>7, WritesAlone DEF Certain
    <3>3. QED
      BY <3>1, <3>2, <1>8 DEF CopyKept, Certain
  <2>3. FiledIsThere'
    <3> SUFFICES ASSUME NEW t \in Slots, Phase(t, "filed")', NEW k \in Certain \cap req'[t].keys
                 PROVE  FALSE
      BY <1>1 DEF FiledIsThere, Certain
    <3>1. t # s /\ req'[t] = req[t] /\ Phase(t, "filed")
      BY <1>5 DEF Phase
    <3>2. QED
      BY <3>1, <1>7, WritesAlone DEF Certain
  <2>4. \A k \in Certain \ apart' : k \notin apart /\ (which = "config" => due'[k] = due[k])
    <3>1. which = "config" => r.op \in {"edit", "rollback"} \/ r.keys = {}
      BY <1>1 DEF OpsFit
    <3>2. QED
      BY <3>1, <1>1, <1>8 DEF Certain
  <2>5. RowKept'
    BY <2>4, <1>1 DEF RowKept, Certain
  <2>6. RowReadKept'
    <3> SUFFICES ASSUME NEW t \in Slots, req'[t] # Idle, req'[t].op \in {"agent", "rollback"},
                        NEW k \in Certain \ apart'
                 PROVE  Says(req'[t].was[k], due'[k], k)
      BY <1>1 DEF RowReadKept, Certain
    <3>1. t # s /\ req'[t] = req[t]
      BY <1>5
    <3>2. which = "config"
      BY <3>1 DEF OpsFit
    <3>3. QED
      BY <3>1, <3>2, <2>4 DEF RowReadKept
  <2>7. TempKept'
    BY <1>1 DEF TempKept
  <2>8. QED
    BY <2>1, <2>2, <2>3, <2>5, <2>6, <2>7
<1>15. QED
  BY <1>1, <1>9, <1>10, <1>11, <1>13, <1>14

LEMMA WrittenSafe ==
    ASSUME IInv, NEW s \in Slots, Written(s)
    PROVE  IInv'
BY WrittenBesideSafe, WrittenFiledSafe, WrittenIdleSafe

LEMMA WriteFailsSafe ==
    ASSUME IInv, NEW s \in Slots, WriteFails(s)
    PROVE  IInv'
<1> DEFINE r == req[s]
<1> USE DEF IInv
<1>1. /\ r # Idle /\ r.phase = "open"
      /\ UNCHANGED <<which, row, due, apart, crossed, erased, blind, requests>>
      /\ req' = [req EXCEPT ![s] = Idle]
      /\ doubtful' = IF r.op = "rollback" THEN doubtful \cup r.keys ELSE doubtful
      /\ faults < MaxFaults /\ faults' = faults + 1
  BY DEF WriteFails, Phase, Abandoned, Fault
<1>2. r.keys \subseteq Keys /\ doubtful' \subseteq Keys /\ doubtful \subseteq doubtful'
  BY <1>1, Busy DEF TypeOK
<1>3. PICK c \in {At(r.fd), Cut} : Becomes(r.fd, c)
  BY DEF WriteFails
<1>4. /\ req' \in [Slots -> Request \cup {Idle}]
      /\ req'[s] = Idle
      /\ \A t \in Slots \ {s} : req'[t] = req[t]
  BY <1>1 DEF TypeOK
<1>5. /\ live' = live \/ (r.fd = "live" /\ live' = Cut)
      /\ temp' = temp \/ (r.fd = "temp" /\ temp' = Cut)
  BY <1>3 DEF Becomes, At
<1>6. Active(s) /\ HasCopy(s)
  BY <1>1 DEF Active, HasCopy
<1>7. which # "env" => temp' = temp
  BY <1>1, <1>5 DEF OpsFit
<1>8. TypeOK'
  BY <1>1, <1>2, <1>4, <1>5, <1>7, FilesAssumption DEF TypeOK, File
<1>9. OpsFit' /\ Overlaps'
  BY <1>1, <1>2, <1>4, FewerFit
<1>10. EnvInv' /\ NeverBlind'
  <2>1. ASSUME which = "env", ~crossed PROVE live' = live /\ \A t \in Slots \ {s} : ~Active(t)
    <3>1. r.fd = "temp"
      BY <2>1, <1>1 DEF Overlaps, Phase
    <3>2. QED
      BY <2>1, <3>1, <1>5, <1>6, WritesAlone
  <2>2. QED
    BY <2>1, <1>1, <1>4 DEF EnvInv, NeverBlind, Phase, Active
<1>11. ASSUME NEW t \in Slots \ {s}, req[t] # Idle, ~(req[t].keys \subseteq doubtful)
       PROVE  req[t].phase = "begun"
  BY <1>11, <1>6, WritesAlone DEF Active
<1>12. WriteIsMine'
  BY <1>1, <1>2, <1>4, <1>11 DEF WriteIsMine
<1>13. ASSUME ~blind PROVE Kept'
  <2> USE <1>13 DEF Kept
  <2>0. Certain' \subseteq Certain
    BY <1>1, <1>2 DEF Certain
  <2>1. FileKept'
    <3>1. ASSUME live' # Cut, NEW k \in CertainAhead', ~(k \in CertainAhead) PROVE FALSE
      <4>1. k \in Certain /\ k \in r.keys /\ Ahead(s)
        BY <3>1, <2>0, <1>1, <1>4 DEF CertainAhead, Ahead
      <4>2. which # "env" /\ r.fd = "live" /\ ~(r.keys \subseteq doubtful)
        BY <4>1, <1>1 DEF Ahead, OpsFit, Certain
      <4>3. live = Cut
        BY <4>2, <1>1 DEF WriteIsMine, At, Target
      <4>4. QED
        BY <3>1, <4>3, <1>5
    <3>2. live' # Cut => live' = live
      BY <1>5
    <3>3. QED
      BY <3>1, <3>2, <1>1 DEF FileKept, InFile
  <2>2. CopyKept'
    BY <2>0, <1>1, <1>4 DEF CopyKept, HasCopy
  <2>3. FiledIsThere'
    BY <2>0, <1>1, <1>4, <1>5 DEF FiledIsThere, Phase
  <2>4. RowKept'
    BY <2>0, <1>1 DEF RowKept
  <2>5. RowReadKept'
    BY <2>0, <1>1, <1>4 DEF RowReadKept
  <2>6. TempKept'
    <3>1. temp' \in Content => temp' = temp
      BY <1>5, FilesAssumption DEF Content
    <3>2. \A t \in Slots : \A p \in {"open", "written"} : Phase(t, p)' => Phase(t, p)
      BY <1>4 DEF Phase
    <3>3. \A u \in Slots : Phase(u, "written") => Phase(u, "written")' /\ req'[u] = req[u]
      BY <1>1, <1>4 DEF Phase
    <3>4. QED
      BY <2>0, <3>1, <3>2, <3>3, <1>1 DEF TempKept
  <2>7. QED
    BY <2>1, <2>2, <2>3, <2>4, <2>5, <2>6
<1>14. QED
  BY <1>1, <1>8, <1>9, <1>10, <1>12, <1>13

LEMMA RenameSafe ==
    ASSUME IInv, NEW s \in Slots, Rename(s)
    PROVE  IInv'
<1> DEFINE r == req[s]
<1> USE DEF IInv
<1>1. /\ r # Idle /\ r.phase = "written" /\ Phase(s, "written")
      /\ which = "env"
      /\ UNCHANGED <<which, row, apart, erased, doubtful, crossed, blind, requests, faults>>
  BY DEF Rename, Phase, OpsFit
<1>2. r.keys \subseteq Keys /\ r.copy \in Content /\ Active(s) /\ HasCopy(s)
  BY <1>1, Busy DEF Active, HasCopy
<1>3. CASE temp = Absent
  <2>1. UNCHANGED <<live, temp, due>> /\ req' = [req EXCEPT ![s] = Idle]
    BY <1>3 DEF Rename, files
  <2>2. ~Ahead(s)
    BY <1>1 DEF Ahead
  <2>3. /\ req' \in [Slots -> Request \cup {Idle}]
        /\ OpsFit' /\ Overlaps' /\ EnvInv' /\ NeverBlind' /\ WriteIsMine'
        /\ ~blind => FileKept' /\ CopyKept' /\ FiledIsThere' /\ TempKept'
    BY <2>1, <2>2, <1>1, <1>3, Dropped
  <2>4. TypeOK'
    BY <2>1, <2>3, <1>1 DEF TypeOK
  <2>5. RowKept' /\ RowReadKept'
    BY <2>3, <1>1 DEF RowKept, RowReadKept, OpsFit
  <2>6. QED
    BY <2>3, <2>4, <2>5, <1>1 DEF Kept
<1>4. CASE temp # Absent
  <2>1. /\ req' = [t \in Slots |-> IF t = s \/ req[t] = Idle THEN Idle
                                   ELSE [req[t] EXCEPT !.fd = Moved(@)]]
        /\ live' = temp /\ temp' = Absent /\ Answered(s)
    BY <1>4 DEF Rename
  <2>2. /\ req'[s] = Idle
        /\ \A t \in Slots \ {s} : req[t] = Idle => req'[t] = Idle
        /\ \A t \in Slots \ {s} : req[t] # Idle =>
             /\ req'[t] \in Request /\ req'[t] # Idle
             /\ req'[t].phase = req[t].phase /\ req'[t].op = req[t].op
             /\ req'[t].keys = req[t].keys /\ req'[t].value = req[t].value
             /\ req'[t].copy = req[t].copy /\ req'[t].was = req[t].was
    <3>1. ASSUME NEW t \in Slots \ {s}, req[t] # Idle
          PROVE  /\ req'[t] \in Request
                 /\ req'[t].phase = req[t].phase /\ req'[t].op = req[t].op
                 /\ req'[t].keys = req[t].keys /\ req'[t].value = req[t].value
                 /\ req'[t].copy = req[t].copy /\ req'[t].was = req[t].was
      <4>1. req'[t] = [req[t] EXCEPT !.fd = Moved(req[t].fd)]
        BY <3>1, <2>1
      <4>2. req[t] \in Request
        BY <3>1, Busy
      <4>3. Moved(req[t].fd) \in {"none", "temp", "live", "gone"}
        BY <4>2 DEF Moved, Request
      <4>4. QED
        BY <4>1, <4>2, <4>3 DEF Request
    <3>2. QED
      BY <3>1, <2>1, NotIdle
  <2>3. req' \in [Slots -> Request \cup {Idle}]
    <3>1. \A t \in Slots : req'[t] \in Request \cup {Idle}
      BY <2>2
    <3>2. DOMAIN req' = Slots /\ req' = [t \in Slots |-> req'[t]]
      BY <2>1
    <3>3. QED
      BY <3>1, <3>2
  <2>4. \A t \in Slots \ {s} : (Active(t) <=> Active(t)') /\ (HasCopy(t) <=> HasCopy(t)')
                                /\ (\A p : Phase(t, p) <=> Phase(t, p)')
    BY <2>2 DEF Active, HasCopy, Phase
  <2>5. ~Active(s)' /\ ~HasCopy(s)' /\ \A p : ~Phase(s, p)'
    BY <2>2 DEF Active, HasCopy, Phase
  <2>6. \A t \in Slots \ {s} : Active(t) =>
          crossed /\ r.keys \subseteq doubtful /\ req[t].keys \subseteq doubtful
    BY <1>2, WritesAlone
  <2>7. \A t \in Slots \ {s} : Phase(t, "open") \/ Phase(t, "written") => Active(t)
    BY <1>2, WritesAlone
  <2>8. /\ \A k \in Keys \ r.keys : due'[k] = due[k]
        /\ \A k \in r.keys : due'[k] = r.copy[k]
        /\ due' \in Content
    <3>1. due' = [k \in Keys |-> IF k \in r.keys THEN r.copy[k] ELSE due[k]]
      BY <2>1 DEF Answered
    <3>2. \A k \in Keys : r.copy[k] \in Values \cup {None} /\ due[k] \in Values \cup {None}
      BY <1>2 DEF TypeOK, Content
    <3>3. due' \in Content
      BY <3>1, <3>2 DEF Content
    <3>4. QED
      BY <3>1, <3>3, <1>2
  <2>9. TypeOK'
    BY <2>1, <2>3, <2>8, <1>1, FilesAssumption DEF TypeOK, File
  <2>10. OpsFit'
    <3> SUFFICES ASSUME NEW t \in Slots, req'[t] # Idle PROVE OpsFit!(t)'
      BY DEF OpsFit
    <3>1. t # s /\ req[t] # Idle
      BY <2>2
    <3>2. QED
      BY <3>1, <2>2, <2>4, <1>1 DEF OpsFit
  <2>11. Overlaps'
    BY <2>2, <2>4, <2>5, <2>6, <2>7, <1>1 DEF Overlaps, Active
  <2>12. EnvInv' /\ NeverBlind'
    BY <2>1, <2>4, <2>5, <2>6, <2>7, <1>1 DEF EnvInv, NeverBlind
  <2>13. WriteIsMine'
    BY <2>2, <2>6, <1>1 DEF WriteIsMine, Active
  <2>14. ASSUME ~blind PROVE Kept'
    <3> USE <2>14 DEF Kept
    <3>1. FileKept'
      <4> SUFFICES ASSUME temp # Cut, NEW k \in Certain PROVE due'[k] = temp[k]
        BY <2>1, <1>1, <1>4 DEF FileKept, CertainAhead, Certain, InFile
      <4>1. CASE k \in r.keys
        BY <4>1, <2>8, <1>1 DEF WriteIsMine, Certain
      <4>2. CASE k \notin r.keys
        <5>1. temp \in Content
          BY <1>4 DEF TypeOK, File
        <5>2. \/ temp[k] = due[k]
              \/ \E t \in Slots : Phase(t, "written") /\ k \in req[t].keys
          BY <5>1, <1>1 DEF TempKept
        <5>3. QED
          BY <4>2, <5>2, <2>6, <2>7, <2>8 DEF Certain
      <4>3. QED
        BY <4>1, <4>2
    <3>2. CopyKept'
      <4> SUFFICES ASSUME NEW t \in Slots, HasCopy(t)', NEW k \in Certain,
                          k \notin req'[t].keys \/ req'[t].op = "rollback"
                   PROVE  req'[t].copy[k] = due'[k]
        BY <1>1 DEF CopyKept, Certain
      <4>1. t # s /\ HasCopy(t) /\ req[t] # Idle
        BY <2>4, <2>5 DEF HasCopy
      <4>2. k \notin r.keys
        BY <4>1, <1>2, WritesAlone DEF Certain
      <4>3. QED
        BY <4>1, <4>2, <2>2, <2>8 DEF CopyKept, Certain
    <3>3. FiledIsThere' /\ RowKept' /\ RowReadKept'
      BY <2>10, <1>1 DEF FiledIsThere, RowKept, RowReadKept, OpsFit, Phase
    <3>4. TempKept'
      BY <2>1, FilesAssumption DEF TempKept, Content
    <3>5. QED
      BY <3>1, <3>2, <3>3, <3>4
  <2>15. QED
    BY <2>9, <2>10, <2>11, <2>12, <2>13, <2>14, <1>1
<1>5. QED
  BY <1>3, <1>4

---------------------------------------------------------------------------
(* The agents table *)

LEMMA RowUpdatedSafe ==
    ASSUME IInv, NEW s \in Slots, RowUpdated(s)
    PROVE  IInv'
<1> DEFINE r == req[s]
<1> USE DEF IInv
<1>1. /\ r # Idle /\ r.phase = "filed" /\ Phase(s, "filed") /\ r.op = "agent"
      /\ which = "config"
      /\ UNCHANGED <<which, live, temp, erased, doubtful, crossed, blind, requests, faults>>
      /\ req' = [req EXCEPT ![s] = Idle]
      /\ apart' = apart \ r.keys
  BY DEF RowUpdated, Phase, OpsFit, files
<1>2. /\ r.keys \subseteq Keys /\ r.value \in Values \cup {None}
      /\ r.copy \in Content /\ r.was \in Content /\ Active(s) /\ HasCopy(s)
  BY <1>1, Busy DEF Active, HasCopy
<1>3. /\ req' \in [Slots -> Request \cup {Idle}]
      /\ req'[s] = Idle
      /\ \A t \in Slots \ {s} : req'[t] = req[t]
  BY <1>1 DEF TypeOK
<1>4. /\ \A k \in Keys \ r.keys : due'[k] = due[k] /\ row'[k] \in {None, r.was[k]}
      /\ \A k \in r.keys : due'[k] = r.copy[k] /\ row'[k] = r.value /\ r.value = r.copy[k]
      /\ due' \in Content /\ row' \in Content
  <2>1. /\ due' = [k \in Keys |-> IF k \in r.keys THEN r.copy[k] ELSE due[k]]
        /\ \E replaced \in SUBSET Keys :
             row' = [k \in Keys |-> IF k \in r.keys THEN r.value
                                   ELSE IF k \in replaced THEN None ELSE r.was[k]]
    BY DEF RowUpdated, Merged, Answered
  <2>2. \A k \in Keys : /\ r.copy[k] \in Values \cup {None} /\ due[k] \in Values \cup {None}
                        /\ r.was[k] \in Values \cup {None}
    BY <1>2 DEF TypeOK, Content
  <2>3. due' \in Content /\ row' \in Content
    BY <2>1, <2>2, <1>2 DEF Content
  <2>4. \A k \in r.keys : r.value = r.copy[k]
    BY <1>1, <1>2 DEF OpsFit
  <2>5. QED
    BY <2>1, <2>3, <2>4, <1>2
<1>5. TypeOK'
  BY <1>1, <1>3, <1>4 DEF TypeOK
<1>6. OpsFit' /\ Overlaps'
  BY <1>1, <1>3, FewerFit
<1>7. EnvInv' /\ NeverBlind' /\ WriteIsMine'
  BY <1>1, <1>3 DEF EnvInv, NeverBlind, WriteIsMine, At, Target
<1>8. ASSUME NEW t \in Slots \ {s}, Active(t), NEW k \in Certain PROVE due'[k] = due[k]
  BY <1>2, <1>4, <1>8, WritesAlone DEF Certain
<1>9. ASSUME ~blind PROVE Kept'
  <2> USE <1>9 DEF Kept
  <2>1. FileKept'
    <3> SUFFICES ASSUME live # Cut, NEW k \in CertainAhead' PROVE due'[k] = live[k]
      BY <1>1 DEF FileKept, InFile, TypeOK
    <3>1. k \in Certain /\ \A t \in Slots \ {s} : Ahead(t) => k \notin req[t].keys
      BY <1>1, <1>3 DEF CertainAhead, Certain, Ahead
    <3>2. CASE k \in r.keys
      BY <3>1, <3>2, <1>1, <1>4 DEF FiledIsThere
    <3>3. CASE k \notin r.keys
      <4>1. k \in CertainAhead
        BY <3>1, <3>3 DEF CertainAhead
      <4>2. QED
        BY <3>1, <3>3, <4>1, <1>1, <1>4 DEF FileKept, InFile, Certain, TypeOK
    <3>4. QED
      BY <3>2, <3>3
  <2>2. CopyKept'
    <3> SUFFICES ASSUME NEW t \in Slots, HasCopy(t)', NEW k \in Certain,
                        k \notin req'[t].keys \/ req'[t].op = "rollback"
                 PROVE  req'[t].copy[k] = due'[k]
      BY <1>1 DEF CopyKept, Certain
    <3>1. t # s /\ req'[t] = req[t] /\ HasCopy(t)
      BY <1>3 DEF HasCopy
    <3>2. Active(t)
      BY <3>1, <1>2, WritesAlone
    <3>3. QED
      BY <3>1, <3>2, <1>8 DEF CopyKept
  <2>3. FiledIsThere'
    BY <1>1, <1>3 DEF FiledIsThere, Phase, Certain
  <2>4. RowKept'
    <3> SUFFICES ASSUME NEW k \in Certain, k \notin apart \/ k \in r.keys
                 PROVE  Says(row'[k], due'[k], k)
      BY <1>1 DEF RowKept, Certain
    <3>1. CASE k \in r.keys
      BY <3>1, <1>4 DEF Says
    <3>2. CASE k \notin r.keys
      BY <3>2, <1>1, <1>4 DEF RowReadKept, Certain, Says
    <3>3. QED
      BY <3>1, <3>2
  <2>5. RowReadKept'
    <3> SUFFICES ASSUME NEW t \in Slots, req'[t] # Idle, req'[t].op \in {"agent", "rollback"},
                        NEW k \in Certain, k \notin apart \/ k \in r.keys
                 PROVE  Says(req'[t].was[k], due'[k], k)
      BY <1>1 DEF RowReadKept, Certain
    <3>1. t # s /\ req'[t] = req[t]
      BY <1>3
    <3>2. Active(t)
      BY <3>1 DEF Active
    <3>3. k \notin r.keys
      BY <3>1, <3>2, <1>2, WritesAlone DEF Certain
    <3>4. QED
      BY <3>1, <3>2, <3>3, <1>8 DEF RowReadKept
  <2>6. TempKept'
    BY <1>1 DEF TempKept
  <2>7. QED
    BY <2>1, <2>2, <2>3, <2>4, <2>5, <2>6
<1>10. QED
  BY <1>1, <1>5, <1>6, <1>7, <1>9

LEMMA RowFailsSafe ==
    ASSUME IInv, NEW s \in Slots, RowFails(s)
    PROVE  IInv'
<1> DEFINE r == req[s]
<1> DEFINE new == [r EXCEPT !.phase = "begun", !.op = "rollback"]
<1> USE DEF IInv
<1>1. /\ r # Idle /\ r.phase = "filed" /\ r.op = "agent" /\ which = "config"
      /\ UNCHANGED <<which, live, temp, row, due, apart, erased, doubtful, crossed, blind, requests>>
      /\ req' = [req EXCEPT ![s] = new]
      /\ faults < MaxFaults /\ faults' = faults + 1
  BY DEF RowFails, Rollback, Phase, OpsFit, files, history, Fault
<1>2. r \in Request
  BY <1>1, Busy
<1>3. /\ new \in Request
      /\ new.phase = "begun" /\ new.op = "rollback" /\ new.keys = r.keys
      /\ new.value = r.value /\ new.was = r.was /\ new.copy = r.copy
  BY <1>2 DEF Request
<1>4. /\ req' \in [Slots -> Request \cup {Idle}]
      /\ req'[s] = new
      /\ \A t \in Slots \ {s} : req'[t] = req[t]
  BY <1>1, <1>3 DEF TypeOK
<1>5. new # Idle
  BY <1>3, NotIdle
<1> HIDE DEF new
<1>6. /\ Active(s) /\ Active(s)' /\ Ahead(s) /\ Ahead(s)' /\ ~HasCopy(s)'
      /\ \A p : Phase(s, p)' => p = "begun"
  BY <1>1, <1>3, <1>4, <1>5 DEF Active, Ahead, HasCopy, Phase
<1>7. \A t \in Slots \ {s} : (Active(t) <=> Active(t)') /\ (HasCopy(t) <=> HasCopy(t)')
                              /\ (Ahead(t) <=> Ahead(t)')
                              /\ (\A p : Phase(t, p) <=> Phase(t, p)')
  BY <1>1, <1>4 DEF Active, HasCopy, Phase, Ahead
<1>8. TypeOK'
  BY <1>1, <1>4, FilesAssumption DEF TypeOK
<1>9. OpsFit'
  <2> SUFFICES ASSUME NEW t \in Slots, req'[t] # Idle PROVE OpsFit!(t)'
    BY DEF OpsFit
  <2>1. CASE t = s
    BY <2>1, <1>1, <1>3, <1>4
  <2>2. CASE t # s
    BY <2>2, <1>1, <1>4, <1>7 DEF OpsFit
  <2>3. QED
    BY <2>1, <2>2
<1>10. Overlaps' /\ EnvInv' /\ NeverBlind'
  BY <1>1, <1>3, <1>4, <1>6, <1>7 DEF Overlaps, EnvInv, NeverBlind
<1>11. WriteIsMine'
  BY <1>1, <1>3, <1>4 DEF WriteIsMine, At, Target
<1>12. ASSUME ~blind PROVE Kept'
  <2> USE <1>12 DEF Kept
  <2>1. FileKept'
    <3>1. CertainAhead' = CertainAhead
      BY <1>1, <1>3, <1>4, <1>6, <1>7 DEF CertainAhead, Certain
    <3>2. QED
      BY <3>1, <1>1 DEF FileKept, InFile
  <2>2. CopyKept' /\ FiledIsThere'
    BY <1>1, <1>4, <1>6, <1>7 DEF CopyKept, FiledIsThere, Certain
  <2>3. RowKept' /\ TempKept'
    BY <1>1 DEF RowKept, TempKept, Certain
  <2>4. RowReadKept'
    BY <1>1, <1>3, <1>4 DEF RowReadKept, Certain
  <2>5. QED
    BY <2>1, <2>2, <2>3, <2>4
<1>13. QED
  BY <1>1, <1>8, <1>9, <1>10, <1>11, <1>12

LEMMA CrashSafe ==
    ASSUME IInv, Crash
    PROVE  IInv'
<1> USE DEF IInv
<1>1. /\ UNCHANGED <<which, temp, row, due, apart, crossed, erased, blind, requests>>
      /\ doubtful' = doubtful \cup InFlight
      /\ req' = [s \in Slots |-> Idle]
      /\ faults < MaxFaults /\ faults' = faults + 1
      /\ live' = live \/ (live' = Cut /\ \E s \in Slots : Phase(s, "open") /\ req[s].fd = "live")
  BY DEF Crash, Fault
<1>2. \A s \in Slots : req'[s] = Idle
  BY <1>1
<1>3. \A s \in Slots : req[s] # Idle => req[s].keys \subseteq InFlight /\ req[s].keys \subseteq Keys
  BY Busy DEF InFlight, KeysOf
<1>4. InFlight \subseteq Keys
  BY Busy DEF InFlight, KeysOf
<1>5. TypeOK'
  BY <1>1, <1>4, FilesAssumption DEF TypeOK, File
<1>6. OpsFit' /\ Overlaps' /\ WriteIsMine'
  BY <1>2 DEF OpsFit, Overlaps, WriteIsMine, Active, Phase
<1>7. EnvInv' /\ NeverBlind'
  BY <1>1, <1>2 DEF EnvInv, NeverBlind, Overlaps, Phase
<1>8. ASSUME ~blind PROVE Kept'
  <2> USE <1>8 DEF Kept
  <2>1. FileKept'
    <3>1. CertainAhead' \subseteq CertainAhead
      BY <1>1, <1>3 DEF CertainAhead, Certain, Ahead
    <3>2. QED
      BY <3>1, <1>1 DEF FileKept, InFile
  <2>2. CopyKept' /\ FiledIsThere' /\ RowReadKept' /\ TempKept'
    BY <1>2 DEF CopyKept, HasCopy, FiledIsThere, RowReadKept, TempKept, Phase
  <2>3. RowKept'
    BY <1>1 DEF RowKept, Certain
  <2>4. QED
    BY <2>1, <2>2, <2>3
<1>9. QED
  BY <1>1, <1>5, <1>6, <1>7, <1>8

---------------------------------------------------------------------------
(* The theorems *)

LEMMA StepSafe ==
    ASSUME IInv, [Next]_vars
    PROVE  IInv'
<1>1. CASE UNCHANGED vars
  <2>1. UNCHANGED <<which, live, temp, req, row, due, apart, erased, doubtful, crossed, blind, requests, faults>>
    BY <1>1 DEF vars, files, history
  <2>2. TypeOK' /\ OpsFit' /\ Overlaps' /\ EnvInv' /\ NeverBlind' /\ WriteIsMine'
    BY <2>1 DEF IInv, TypeOK, OpsFit, Overlaps, EnvInv, NeverBlind, WriteIsMine,
                HasCopy, Active, Phase, At, Target
  <2>3. ~blind => Kept'
    BY <2>1 DEF IInv, Kept, FileKept, CertainAhead, Certain, Ahead, InFile, CopyKept, HasCopy,
                FiledIsThere, Phase, RowKept, RowReadKept, TempKept
  <2>4. QED
    BY <2>1, <2>2, <2>3 DEF IInv
<1>2. CASE Next
  <2>1. ASSUME NEW s \in Slots, NEW k \in Keys, NEW v \in Values,
               \/ AddJob(s, k, v) \/ ToggleJob(s, k, v) \/ RemoveJob(s, k)
               \/ PostTokens(s, k, v)
               \/ Pull(s, k, v)
        PROVE  IInv'
    <3>1. {k} \in SUBSET Keys /\ v \in Values \cup {None} /\ None \in Values \cup {None}
      OBVIOUS
    <3>2. \/ Begin(s, "add", {k}, v) \/ Begin(s, "toggle", {k}, v) \/ Begin(s, "remove", {k}, None)
          \/ Begin(s, "post", {k}, v) \/ Begin(s, "put", {k}, v)
      BY <2>1 DEF AddJob, ToggleJob, RemoveJob, PostTokens, Pull, PutVars
    <3>3. QED
      BY <3>1, <3>2, BeginSafe
  <2>2. ASSUME NEW s \in Slots, NEW ks \in SUBSET Keys \ {{}},
               Cleanup(s, ks) \/ CleanupNow(s, ks) \/ DeleteVars(s, ks)
        PROVE  IInv'
    <3>1. Begin(s, "prune", ks, None) \/ Begin(s, "delete", ks, None)
      BY <2>2 DEF Cleanup, CleanupNow, DeleteVars
    <3>2. QED
      BY <3>1, BeginSafe
  <2>3. ASSUME NEW s \in Slots, NEW ks \in SUBSET Keys \ {{}}, NEW v \in Values,
               \/ PutVars(s, ks, v) \/ PullAll(s, ks, v)
               \/ EditConfig(s, ks, v)
               \/ UpdateAgent(s, ks, v)
        PROVE  IInv'
    <3>1. Begin(s, "put", ks, v) \/ Begin(s, "edit", ks, v) \/ Begin(s, "agent", ks, v)
      BY <2>3 DEF PutVars, PullAll, EditConfig, UpdateAgent
    <3>2. QED
      BY <3>1, BeginSafe
  <2>4. ASSUME NEW s \in Slots, SyncAgents(s)
        PROVE  IInv'
    BY <2>4, BeginSafe DEF SyncAgents
  <2>5. ASSUME NEW s \in Slots, Read(s) \/ ReadRefused(s) \/ SyncRow(s)
        PROVE  IInv'
    BY <2>5, ReadSafe, ReadRefusedSafe, SyncRowSafe
  <2>6. ASSUME NEW s \in Slots,
               Open(s) \/ Written(s) \/ WriteFails(s) \/ Rename(s) \/ RowUpdated(s) \/ RowFails(s)
        PROVE  IInv'
    BY <2>6, OpenSafe, WrittenSafe, WriteFailsSafe, RenameSafe, RowUpdatedSafe, RowFailsSafe
  <2>7. ASSUME NEW ks \in SUBSET Keys \ {{}}, NEW v \in Values, SetRow(ks, v)
        PROVE  IInv'
    BY <2>7, SetRowSafe
  <2>8. QED
    BY <1>2, <2>1, <2>2, <2>3, <2>4, <2>5, <2>6, <2>7, CrashSafe DEF Next
<1>3. QED
  BY <1>1, <1>2

\* What the history says of files, copies and rows holds of every behaviour,
\* whatever requests overlap, fail or break off.
THEOREM FilesInvariant == Spec => []IInv
BY InitSafe, StepSafe, PTL DEF Spec

\* Files, copies and rows are what the code can write: openclaw.json never goes
\* away, and only .env is written beside itself.
THEOREM FilesTypeCorrect == Spec => []TypeOK
<1>1. IInv => TypeOK
  BY DEF IInv
<1>2. QED
  BY <1>1, FilesInvariant, PTL

\* A change that a request was told of is in the file, and nothing else is, but for
\* the entries of requests that overlapped or broke off, the records that a post of
\* another workspace leaves out (api/tokens), and a file taken for an empty one.
THEOREM AnswersAreAlwaysKept == Spec => []AnswersAreKept
<1>1. ASSUME IInv PROVE AnswersAreKept
  <2> SUFFICES ASSUME live # Cut, ~blind, NEW k \in Settled \ erased
               PROVE  due[k] = InFile(k)
    BY DEF AnswersAreKept, InFile
  <2>1. \A s \in Slots : req[s] # Idle => req[s].keys \subseteq InFlight
    BY DEF InFlight, KeysOf
  <2>2. k \in CertainAhead
    BY <2>1 DEF Settled, CertainAhead, Certain, Ahead
  <2>3. QED
    BY <1>1, <2>2 DEF IInv, Kept, FileKept
<1>2. QED
  BY <1>1, FilesInvariant, PTL

\* The rename of .env.tmp: .env is never left cut short by a request that no
\* other one overlapped, whatever fails and whenever the server stops.
THEOREM EnvAlwaysStaysWhole == Spec => []EnvStaysWhole
<1>1. IInv => EnvStaysWhole
  BY DEF IInv, EnvInv, EnvStaysWhole
<1>2. QED
  BY <1>1, FilesInvariant, PTL

\* The rollback of PUT /api/agents/[id]: what the agents table says of a leaf is in
\* openclaw.json or comes from the agent's workspace, also after the update of the
\* row failed.
THEOREM RowAlwaysAgrees == Spec => []RowAgreesWithConfig
<1>1. ASSUME IInv PROVE RowAgreesWithConfig
  <2> SUFFICES ASSUME which = "config", live # Cut, NEW k \in Settled \ apart
               PROVE  Says(row[k], live[k], k)
    BY DEF RowAgreesWithConfig, Says
  <2>1. \A s \in Slots : req[s] # Idle => req[s].keys \subseteq InFlight
    BY DEF InFlight, KeysOf
  <2>2. k \in CertainAhead /\ k \in Certain \ apart
    BY <2>1, <1>1 DEF Settled, CertainAhead, Certain, Ahead, IInv, NeverBlind
  <2>3. live # Absent /\ ~blind
    BY <1>1 DEF IInv, TypeOK, NeverBlind
  <2>4. due[k] = live[k]
    BY <1>1, <2>2, <2>3 DEF IInv, Kept, FileKept, InFile
  <2>5. QED
    BY <1>1, <2>2, <2>3, <2>4 DEF IInv, Kept, RowKept
<1>2. QED
  BY <1>1, FilesInvariant, PTL

---------------------------------------------------------------------------
(* Data rooms: the inductive invariant *)

\* The bounds are numbers, and every variable has its type.
Typed == RoomAssumption /\ RoomsTypeOK

\* What a request found before it waited for its body has a row still; rows
\* that were deleted keep their ids, and nobody moves to another room.
ParkedFits ==
    \A q \in Handlers :
        /\ parked[q].kind \in {"setlink", "enter"} => parked[q].link \in DOMAIN link
        /\ parked[q].kind = "event" =>
             /\ parked[q].visitor \in DOMAIN visitor
             /\ visitor[parked[q].visitor].room = parked[q].room

\* The time stamp in the name of a file is the time of its upload.
NamesAreTimes == \A d \in DOMAIN doc : doc[d].name = doc[d].at

\* A room takes its documents with it, and a room that is gone does not come
\* back: an upload that finds no room can only overwrite files of rows that are
\* gone.
RoomsOfDocs == \A d \in Live(doc) : Existing(doc[d].room)

Docs == NamesAreTimes /\ RoomsOfDocs /\ DocumentHasItsFile

RoomIInv == Typed /\ ParkedFits /\ Docs /\ VisitsAreTrue

---------------------------------------------------------------------------
(* Data rooms: tables *)

LEMMA TableTypes ==
    ASSUME RoomsTypeOK
    PROVE  /\ link \in Seq(Link) /\ DOMAIN link = 1..Len(link) /\ Len(link) \in Nat
           /\ doc \in Seq(Doc) /\ DOMAIN doc = 1..Len(doc) /\ Len(doc) \in Nat
           /\ visitor \in Seq(Visitor) /\ DOMAIN visitor = 1..Len(visitor) /\ Len(visitor) \in Nat
           /\ event \in Seq(Event) /\ DOMAIN event = 1..Len(event) /\ Len(event) \in Nat
           /\ \A i \in DOMAIN link : link[i] \in Link
           /\ \A i \in DOMAIN doc : doc[i] \in Doc
           /\ \A i \in DOMAIN visitor : visitor[i] \in Visitor
           /\ \A i \in DOMAIN event : event[i] \in Event
<1>1. \A S : \A s \in Seq(S) :
        Len(s) \in Nat /\ DOMAIN s = 1..Len(s) /\ \A i \in DOMAIN s : s[i] \in S
  BY LenProperties, ElementOfSeq
<1> QED
  BY <1>1 DEF RoomsTypeOK

\* A row that was deleted.
Gone(entry) == [entry EXCEPT !.gone = TRUE]

\* A change of rows leaves a table a table.
LEMMA RowsChanged ==
    ASSUME NEW S, NEW s \in Seq(S), NEW t, DOMAIN t = DOMAIN s, t = [i \in DOMAIN s |-> t[i]],
           \A i \in DOMAIN s : t[i] \in S
    PROVE  t \in Seq(S) /\ Len(t) = Len(s)
<1>1. Len(s) \in Nat /\ DOMAIN s = 1..Len(s)
  BY LenProperties
<1>2. t \in [1..Len(s) -> S]
  BY <1>1
<1> QED
  BY <1>1, <1>2

\* Deletion marks rows and does nothing else.
LEMMA DeletedRows ==
    ASSUME NEW T, NEW table \in Seq(T), NEW S,
           \A i \in DOMAIN table : Gone(table[i]) \in T
    PROVE  /\ Deleted(table, S) \in Seq(T)
           /\ Len(Deleted(table, S)) = Len(table)
           /\ DOMAIN Deleted(table, S) = DOMAIN table
           /\ \A i \in DOMAIN table :
                Deleted(table, S)[i] = IF i \in S THEN Gone(table[i]) ELSE table[i]
<1>1. \A i \in DOMAIN table : table[i] \in T
  BY LenProperties, ElementOfSeq
<1>2. /\ DOMAIN Deleted(table, S) = DOMAIN table
      /\ Deleted(table, S) = [i \in DOMAIN table |-> Deleted(table, S)[i]]
      /\ \A i \in DOMAIN table :
           Deleted(table, S)[i] = IF i \in S THEN Gone(table[i]) ELSE table[i]
  BY DEF Deleted, Gone
<1>3. \A i \in DOMAIN table : Deleted(table, S)[i] \in T
  BY <1>1, <1>2
<1> HIDE DEF Deleted
<1> QED
  BY <1>2, <1>3, RowsChanged

LEMMA GoneRows ==
    /\ \A entry \in Link : Gone(entry) \in Link
                         /\ Gone(entry).gone = TRUE
                         /\ Gone(entry).room = entry.room
    /\ \A entry \in Doc : Gone(entry) \in Doc
                        /\ Gone(entry).gone = TRUE
                        /\ Gone(entry).room = entry.room
                        /\ Gone(entry).name = entry.name
                        /\ Gone(entry).at = entry.at
    /\ \A entry \in Visitor : Gone(entry) \in Visitor
                            /\ Gone(entry).gone = TRUE
                            /\ Gone(entry).room = entry.room
    /\ \A entry \in Event : Gone(entry) \in Event
                          /\ Gone(entry).gone = TRUE
  BY DEF Link, Doc, Visitor, Event, Gone

\* What is left of the tables.
LEMMA TablesDeleted ==
    ASSUME RoomsTypeOK, NEW S
    PROVE  /\ /\ Deleted(link, S) \in Seq(Link) /\ Len(Deleted(link, S)) = Len(link)
              /\ DOMAIN Deleted(link, S) = DOMAIN link
           /\ /\ Deleted(doc, S) \in Seq(Doc) /\ Len(Deleted(doc, S)) = Len(doc)
              /\ DOMAIN Deleted(doc, S) = DOMAIN doc
              /\ \A i \in DOMAIN doc :
                   Deleted(doc, S)[i] = IF i \in S THEN Gone(doc[i]) ELSE doc[i]
           /\ /\ Deleted(visitor, S) \in Seq(Visitor) /\ Len(Deleted(visitor, S)) = Len(visitor)
              /\ DOMAIN Deleted(visitor, S) = DOMAIN visitor
              /\ \A i \in DOMAIN visitor :
                   Deleted(visitor, S)[i] =
                     IF i \in S THEN Gone(visitor[i]) ELSE visitor[i]
           /\ /\ Deleted(event, S) \in Seq(Event) /\ Len(Deleted(event, S)) = Len(event)
              /\ DOMAIN Deleted(event, S) = DOMAIN event
              /\ \A i \in DOMAIN event :
                   Deleted(event, S)[i] =
                     IF i \in S THEN Gone(event[i]) ELSE event[i]
<1>1. /\ \A i \in DOMAIN link : Gone(link[i]) \in Link
      /\ \A i \in DOMAIN doc : Gone(doc[i]) \in Doc
      /\ \A i \in DOMAIN visitor : Gone(visitor[i]) \in Visitor
      /\ \A i \in DOMAIN event : Gone(event[i]) \in Event
  BY TableTypes, GoneRows
<1>2. link \in Seq(Link) /\ doc \in Seq(Doc) /\ visitor \in Seq(Visitor) /\ event \in Seq(Event)
  BY DEF RoomsTypeOK
<1>3. /\ Deleted(link, S) \in Seq(Link) /\ Len(Deleted(link, S)) = Len(link)
      /\ DOMAIN Deleted(link, S) = DOMAIN link
  BY <1>1, <1>2, DeletedRows
<1>4. /\ Deleted(doc, S) \in Seq(Doc) /\ Len(Deleted(doc, S)) = Len(doc)
      /\ DOMAIN Deleted(doc, S) = DOMAIN doc
      /\ \A i \in DOMAIN doc :
           Deleted(doc, S)[i] = IF i \in S THEN Gone(doc[i]) ELSE doc[i]
  BY <1>1, <1>2, DeletedRows
<1>5. /\ Deleted(visitor, S) \in Seq(Visitor) /\ Len(Deleted(visitor, S)) = Len(visitor)
      /\ DOMAIN Deleted(visitor, S) = DOMAIN visitor
      /\ \A i \in DOMAIN visitor :
           Deleted(visitor, S)[i] =
             IF i \in S THEN Gone(visitor[i]) ELSE visitor[i]
  BY <1>1, <1>2, DeletedRows
<1>6. /\ Deleted(event, S) \in Seq(Event) /\ Len(Deleted(event, S)) = Len(event)
      /\ DOMAIN Deleted(event, S) = DOMAIN event
      /\ \A i \in DOMAIN event :
           Deleted(event, S)[i] =
             IF i \in S THEN Gone(event[i]) ELSE event[i]
  BY <1>1, <1>2, DeletedRows
<1> QED
  BY <1>3, <1>4, <1>5, <1>6

\* What the kind of a request tells of it.
LEMMA ParkedKinds ==
    ASSUME RoomsTypeOK, NEW q \in Handlers
    PROVE  /\ parked[q] \in Parked \cup {Free}
           /\ parked[q].kind \in {"upload", "link"} => parked[q].room \in Rooms
           /\ parked[q].kind = "store" => parked[q].room \in Rooms /\ parked[q].at \in Times
           /\ parked[q].kind \in {"setlink", "enter"} => parked[q].link \in 1..MaxLinks
           /\ parked[q].kind = "event" =>
                parked[q].visitor \in 1..MaxVisitors /\ parked[q].room \in Rooms
  BY DEF RoomsTypeOK, Parked, Free

---------------------------------------------------------------------------
(* Data rooms: frames *)

\* Rows of links and visitors stay, and so do the rooms of visitors.
RowsStay ==
    /\ DOMAIN link \subseteq DOMAIN link'
    /\ DOMAIN visitor \subseteq DOMAIN visitor'
    /\ \A v \in DOMAIN visitor : visitor'[v].room = visitor[v].room

\* No request is parked.
LEMMA NobodyParks ==
    ASSUME ParkedFits, RowsStay, \A q \in Handlers : parked'[q] \in {parked[q], Free}
    PROVE  ParkedFits'
  BY DEF ParkedFits, RowsStay, Free

LEMMA DocsFrame ==
    ASSUME Docs, UNCHANGED <<doc, file>>, cut \subseteq cut',
           \A r \in Rooms : Existing(r) => Existing(r)', RoomsTypeOK
    PROVE  Docs'
  BY TableTypes DEF Docs, NamesAreTimes, RoomsOfDocs, DocumentHasItsFile, Live, Doc, Path

LEMMA VisitsFrame ==
    ASSUME VisitsAreTrue, UNCHANGED <<doc, visitor, event>>
    PROVE  VisitsAreTrue'
  BY DEF VisitsAreTrue, Live

\* One request is parked that fits, and the tables stay as they are.
LEMMA ParkStep ==
    ASSUME RoomIInv, NEW q \in Handlers, NEW request \in Parked, Park(q, request),
           UNCHANGED <<tables, file, clock, cut>>,
           request.kind \in {"setlink", "enter"} => request.link \in DOMAIN link,
           request.kind = "event" => request.visitor \in DOMAIN visitor
                                     /\ visitor[request.visitor].room = request.room
    PROVE  RoomIInv'
<1>1. Typed'
  BY DEF RoomIInv, Typed, RoomsTypeOK, RoomAssumption, Park, tables
<1>2. ParkedFits'
  <2>1. link' = link /\ visitor' = visitor /\ parked' = [parked EXCEPT ![q] = request]
        /\ parked \in [Handlers -> Parked \cup {Free}]
    BY DEF RoomIInv, Typed, RoomsTypeOK, Park, tables
  <2>2. \A k \in Handlers : parked'[k] = IF k = q THEN request ELSE parked[k]
    BY <2>1
  <2> QED
    BY <2>1, <2>2 DEF RoomIInv, ParkedFits
<1>3. Docs'
  BY DocsFrame DEF RoomIInv, Typed, tables, Existing
<1>4. VisitsAreTrue'
  BY VisitsFrame DEF RoomIInv, tables
<1> QED
  BY <1>1, <1>2, <1>3, <1>4 DEF RoomIInv

---------------------------------------------------------------------------
(* Data rooms: initial states, rooms *)

LEMMA RoomInit == RoomsInit => RoomIInv
<1> USE RoomAssumption
<1> SUFFICES ASSUME RoomsInit PROVE RoomIInv
  OBVIOUS
<1>1. RoomsTypeOK
  BY DEF RoomAssumption, RoomsInit, RoomsTypeOK, RoomStatus, Times, NoFile, Orphan
<1>2. ParkedFits
  BY DEF RoomsInit, ParkedFits, Free
<1>3. Live(doc) = {} /\ Live(visitor) = {} /\ Live(event) = {} /\ DOMAIN doc = {}
  BY DEF RoomsInit, Live
<1> QED
  BY <1>1, <1>2, <1>3 DEF RoomIInv, Typed, Docs, NamesAreTimes, RoomsOfDocs, DocumentHasItsFile,
     VisitsAreTrue

\* A room that exists or comes to exist leaves everything else alone.
LEMMA RoomStep ==
    ASSUME RoomIInv, NEW r \in Rooms, NEW status \in {"open", "archived"}, room[r] # "gone",
           room' = [room EXCEPT ![r] = status],
           UNCHANGED <<link, doc, visitor, event, file, parked, bodies, clock, cut>>
    PROVE  RoomIInv'
<1>1. Typed'
  BY DEF RoomIInv, Typed, RoomsTypeOK, RoomAssumption, RoomStatus
<1>2. ParkedFits'
  BY DEF RoomIInv, ParkedFits
<1>3. \A s \in Rooms : Existing(s) => Existing(s)'
  BY DEF RoomIInv, Typed, RoomsTypeOK, Existing
<1>4. Docs'
  BY <1>3, DocsFrame DEF RoomIInv, Typed
<1>5. VisitsAreTrue'
  BY VisitsFrame DEF RoomIInv
<1> QED
  BY <1>1, <1>2, <1>4, <1>5 DEF RoomIInv

\* Rows of visitors, documents and events go.
LEMMA VisitsGo ==
    ASSUME RoomsTypeOK, VisitsAreTrue, NEW D, NEW V, NEW E,
           doc' = Deleted(doc, D), visitor' = Deleted(visitor, V), event' = Deleted(event, E),
           \A e \in Live(event) :
               event[e].visitor \in V \/ event[e].doc \in D => e \in E
    PROVE  VisitsAreTrue'
<1>1. /\ DOMAIN doc' = DOMAIN doc
      /\ \A i \in DOMAIN doc :
           doc'[i] = IF i \in D THEN Gone(doc[i]) ELSE doc[i]
  BY TablesDeleted
<1>2. /\ DOMAIN visitor' = DOMAIN visitor
      /\ \A i \in DOMAIN visitor :
           visitor'[i] = IF i \in V THEN Gone(visitor[i]) ELSE visitor[i]
  BY TablesDeleted
<1>3. /\ DOMAIN event' = DOMAIN event
      /\ \A i \in DOMAIN event :
           event'[i] = IF i \in E THEN Gone(event[i]) ELSE event[i]
  BY TablesDeleted
<1>4. \A i : i \in Live(doc') <=> i \in Live(doc) /\ i \notin D
  BY <1>1, TableTypes, GoneRows DEF Live
<1>5. \A i : i \in Live(visitor') <=> i \in Live(visitor) /\ i \notin V
  BY <1>2, TableTypes, GoneRows DEF Live
<1>6. \A i : i \in Live(event') <=> i \in Live(event) /\ i \notin E
  BY <1>3, TableTypes, GoneRows DEF Live
<1>7. /\ \A i \in Live(doc') : doc'[i] = doc[i]
      /\ \A i \in Live(visitor') : visitor'[i] = visitor[i]
      /\ \A i \in Live(event') : event'[i] = event[i]
  BY <1>1, <1>2, <1>3, <1>4, <1>5, <1>6 DEF Live
<1>8. ASSUME NEW v \in Live(visitor'), NEW w \in Live(visitor'),
             visitor'[v].link = visitor'[w].link, visitor'[v].email = visitor'[w].email
      PROVE  v = w
  BY <1>5, <1>7, <1>8 DEF VisitsAreTrue
<1>9. ASSUME NEW e \in Live(event')
      PROVE  /\ event'[e].visitor \in Live(visitor')
             /\ event'[e].room = visitor'[event'[e].visitor].room
             /\ event'[e].doc # 0 =>
                  event'[e].doc \in Live(doc') /\ doc'[event'[e].doc].room = event'[e].room
  <2>1. e \in Live(event) /\ e \notin E /\ event'[e] = event[e]
    BY <1>6, <1>7
  <2>2. event[e].visitor \notin V /\ event[e].doc \notin D
    BY <2>1
  <2>3. event[e].visitor \in Live(visitor') /\ visitor'[event[e].visitor] = visitor[event[e].visitor]
    BY <1>5, <1>7, <2>1, <2>2 DEF VisitsAreTrue
  <2>4. event[e].doc # 0 =>
          event[e].doc \in Live(doc') /\ doc'[event[e].doc] = doc[event[e].doc]
    BY <1>4, <1>7, <2>1, <2>2 DEF VisitsAreTrue
  <2> QED
    BY <2>1, <2>3, <2>4 DEF VisitsAreTrue
<1>10. ASSUME NEW e \in Live(event'), NEW f \in Live(event'),
              event'[e].open, event'[f].open, event'[e].doc # 0,
              event'[e].visitor = event'[f].visitor, event'[e].doc = event'[f].doc
       PROVE  e = f
  BY <1>6, <1>7, <1>10 DEF VisitsAreTrue
<1> QED
  BY <1>8, <1>9, <1>10 DEF VisitsAreTrue

\* Rows of documents go.
LEMMA DocsGo ==
    ASSUME RoomsTypeOK, Docs, NEW D, doc' = Deleted(doc, D), UNCHANGED cut,
           \A d \in Live(doc) \ D :
             /\ room'[doc[d].room] \in {"open", "archived"}
             /\ \/ file'[Path(d)] = file[Path(d)]
                \/ \E e \in DOMAIN doc \ {d} : doc[e].room = doc[d].room /\ doc[e].at = doc[d].at
    PROVE  Docs'
<1>1. /\ DOMAIN doc' = DOMAIN doc
      /\ \A i \in DOMAIN doc :
           doc'[i] = IF i \in D THEN Gone(doc[i]) ELSE doc[i]
  BY TablesDeleted
<1>2. \A i \in DOMAIN doc :
        /\ doc'[i].room = doc[i].room /\ doc'[i].name = doc[i].name /\ doc'[i].at = doc[i].at
        /\ i \in D => doc'[i].gone
        /\ i \notin D => doc'[i].gone = doc[i].gone
  BY <1>1, TableTypes, GoneRows
<1>3. \A i : i \in Live(doc') <=> i \in Live(doc) /\ i \notin D
  BY <1>1, <1>2 DEF Live
<1>4. NamesAreTimes'
  BY <1>1, <1>2 DEF Docs, NamesAreTimes
<1>5. RoomsOfDocs'
  BY <1>2, <1>3 DEF RoomsOfDocs, Existing, Live
<1>6. DocumentHasItsFile'
  <2> SUFFICES ASSUME NEW d \in Live(doc')
               PROVE  \/ file'[Path(d)'] = d
                      \/ d \in cut'
                      \/ \E e \in DOMAIN doc' \ {d} :
                           doc'[e].room = doc'[d].room /\ doc'[e].at = doc'[d].at
    BY DEF DocumentHasItsFile, Live
  <2>1. d \in Live(doc) /\ d \notin D /\ d \in DOMAIN doc
    BY <1>3 DEF Live
  <2> QED
    BY <1>1, <1>2, <2>1 DEF Docs, DocumentHasItsFile, Path
<1> QED
  BY <1>4, <1>5, <1>6 DEF Docs

\* DELETE /api/data-rooms/[id] takes along everything of the room.
LEMMA DeleteRoomStep ==
    ASSUME RoomIInv, NEW r \in Rooms, DeleteRoom(r)
    PROVE  RoomIInv'
<1> DEFINE L == {l \in DOMAIN link : link[l].room = r}
           D == {d \in DOMAIN doc : doc[d].room = r}
           V == {v \in DOMAIN visitor : visitor[v].room = r}
           E == {e \in DOMAIN event : event[e].room = r}
<1>0. RoomsTypeOK
  BY DEF RoomIInv, Typed
<1>1. /\ link' = Deleted(link, L) /\ doc' = Deleted(doc, D)
      /\ visitor' = Deleted(visitor, V) /\ event' = Deleted(event, E)
      /\ room' = [room EXCEPT ![r] = "gone"]
      /\ UNCHANGED <<file, parked, bodies, clock, cut>>
  BY DEF DeleteRoom
<1> HIDE DEF L, D, V, E
<1>2. /\ link' \in Seq(Link) /\ Len(link') = Len(link) /\ DOMAIN link' = DOMAIN link
  BY <1>0, <1>1, TablesDeleted
<1>3. doc' \in Seq(Doc) /\ Len(doc') = Len(doc)
  BY <1>0, <1>1, TablesDeleted
<1>4. /\ visitor' \in Seq(Visitor) /\ Len(visitor') = Len(visitor) /\ DOMAIN visitor' = DOMAIN visitor
      /\ \A v \in DOMAIN visitor : visitor'[v] = IF v \in V THEN Gone(visitor[v]) ELSE visitor[v]
  BY <1>0, <1>1, TablesDeleted
<1>5. event' \in Seq(Event) /\ Len(event') = Len(event)
  BY <1>0, <1>1, TablesDeleted
<1>6. Typed'
  BY <1>1, <1>2, <1>3, <1>4, <1>5 DEF RoomIInv, Typed, RoomsTypeOK, RoomAssumption, RoomStatus
<1>7. ParkedFits'
  <2>1. RowsStay
    BY <1>0, <1>2, <1>4, TableTypes, GoneRows DEF RowsStay
  <2> QED
    BY <1>1, <2>1, NobodyParks DEF RoomIInv
<1>8. Docs'
  <2>1. ASSUME NEW d \in Live(doc) \ D PROVE room'[doc[d].room] \in {"open", "archived"}
    BY <1>0, <1>1, TableTypes DEF RoomIInv, Docs, RoomsOfDocs, Existing, Live, RoomsTypeOK, D, Doc
  <2> QED
    BY <1>0, <1>1, <2>1, DocsGo DEF RoomIInv
<1>9. VisitsAreTrue'
  <2>1. ASSUME NEW e \in Live(event), event[e].visitor \in V \/ event[e].doc \in D
        PROVE  e \in E
    <3>1. 0 \notin D
      BY <1>0, TableTypes DEF D
    <3> QED
      BY <2>1, <3>1 DEF RoomIInv, VisitsAreTrue, Live, D, V, E
  <2> QED
    BY <1>0, <1>1, <2>1, VisitsGo DEF RoomIInv
<1> QED
  BY <1>6, <1>7, <1>8, <1>9 DEF RoomIInv

---------------------------------------------------------------------------
(* Data rooms: documents *)

\* A request that was answered, refused or lost is parked no more.
LEMMA NotParked ==
    ASSUME RoomsTypeOK, NEW q \in Handlers, parked' = [parked EXCEPT ![q] = Free]
    PROVE  /\ parked' \in [Handlers -> Parked \cup {Free}]
           /\ \A k \in Handlers : parked'[k] \in {parked[k], Free}
  BY DEF RoomsTypeOK

\* The upload goes on in the next millisecond, or later.
LEMMA UploadNamedStep == ASSUME RoomIInv, NEW q \in Handlers, UploadNamed(q) PROVE RoomIInv'
<1> DEFINE store == [kind |-> "store", room |-> parked[q].room, at |-> clock]
<1>0. RoomsTypeOK /\ clock \in Times
  BY DEF RoomIInv, Typed, RoomsTypeOK
<1>1. store \in Parked /\ store.kind = "store"
  BY <1>0, ParkedKinds DEF UploadNamed, Parked
<1>2. parked' = [parked EXCEPT ![q] = store]
  BY DEF UploadNamed
<1>3. UNCHANGED <<tables, file, bodies, clock, cut>>
  BY DEF UploadNamed
<1> HIDE DEF store
<1>4. Typed'
  BY <1>1, <1>2, <1>3 DEF RoomIInv, Typed, RoomsTypeOK, RoomAssumption, tables
<1>5. ParkedFits'
  <2>1. \A k \in Handlers : parked'[k] = IF k = q THEN store ELSE parked[k]
    BY <1>0, <1>2 DEF RoomsTypeOK
  <2> QED
    BY <1>1, <1>3, <2>1 DEF RoomIInv, ParkedFits, tables
<1>6. Docs'
  BY <1>0, <1>3, DocsFrame DEF RoomIInv, tables, Existing
<1>7. VisitsAreTrue'
  BY <1>3, VisitsFrame DEF RoomIInv, tables
<1> QED
  BY <1>4, <1>5, <1>6, <1>7 DEF RoomIInv

\* The row that is inserted owns the file; a row that owned a file of that name
\* was uploaded in the same millisecond.
LEMMA UploadEndsStep == ASSUME RoomIInv, NEW q \in Handlers, UploadEnds(q) PROVE RoomIInv'
<1> DEFINE r == parked[q].room
           t == parked[q].at
           new == [room |-> r, name |-> t, at |-> t, gone |-> FALSE]
<1>0. RoomsTypeOK /\ RoomAssumption
  BY DEF RoomIInv, Typed
<1>1. r \in Rooms /\ t \in Times /\ Len(doc) < MaxDocs /\ parked' = [parked EXCEPT ![q] = Free]
  BY <1>0, ParkedKinds DEF UploadEnds, Answer
<1>2. /\ file' = [file EXCEPT ![<<r, t>>] = IF Existing(r) THEN Len(doc) + 1 ELSE Orphan]
      /\ doc' = IF Existing(r) THEN Append(doc, new) ELSE doc
      /\ UNCHANGED <<room, link, visitor, event, bodies, clock, cut>>
  BY DEF UploadEnds, Answer, NameAt
<1>3. new \in Doc /\ new.room = r /\ new.name = t /\ new.at = t /\ ~new.gone
  BY <1>1 DEF Doc
<1>4. Len(doc) \in Nat /\ doc \in Seq(Doc) /\ DOMAIN doc = 1..Len(doc)
  BY <1>0, TableTypes
<1>5. MaxDocs \in Nat /\ file \in [Rooms \X Times -> 0..Orphan]
  BY <1>0 DEF RoomAssumption, RoomsTypeOK
<1>6. file' \in [Rooms \X Times -> 0..Orphan]
  <2>1. Len(doc) + 1 \in 0..Orphan /\ Orphan \in 0..Orphan
    BY <1>1, <1>4, <1>5 DEF Orphan
  <2> QED
    BY <1>2, <1>5, <2>1
<1> HIDE DEF r, t, new
<1>7. \A f \in Rooms \X Times : f # <<r, t>> => file'[f] = file[f]
  BY <1>2, <1>5
<1>8. Existing(r) => file'[<<r, t>>] = Len(doc) + 1
  BY <1>1, <1>2, <1>5
<1>9. doc' \in Seq(Doc) /\ Len(doc') <= MaxDocs
  <2>1. CASE Existing(r)
    BY <1>1, <1>2, <1>3, <1>4, <1>5, <2>1, AppendProperties
  <2>2. CASE ~Existing(r)
    BY <1>1, <1>2, <1>4, <1>5, <2>2
  <2> QED
    BY <2>1, <2>2
<1>10. Typed'
  BY <1>0, <1>1, <1>2, <1>6, <1>9, NotParked DEF Typed, RoomsTypeOK, RoomAssumption
<1>11. ParkedFits'
  BY <1>0, <1>1, <1>2, NotParked, NobodyParks DEF RoomIInv, RowsStay
<1>12. /\ DOMAIN doc \subseteq DOMAIN doc'
       /\ \A d \in DOMAIN doc : doc'[d] = doc[d]
       /\ \A d \in DOMAIN doc' : d \in DOMAIN doc \/ (Existing(r) /\ d = Len(doc) + 1 /\ doc'[d] = new)
  <2>1. CASE Existing(r)
    <3>1. /\ Len(doc') = Len(doc) + 1 /\ doc'[Len(doc) + 1] = new
          /\ \A i \in 1..Len(doc) : doc'[i] = doc[i]
      BY <1>2, <1>3, <1>4, <2>1, AppendProperties
    <3>2. DOMAIN doc' = 1..(Len(doc) + 1)
      BY <1>4, <1>9, <3>1, LenProperties
    <3> QED
      BY <1>4, <2>1, <3>1, <3>2
  <2>2. CASE ~Existing(r)
    BY <1>2, <2>2
  <2> QED
    BY <2>1, <2>2
<1>13. Docs'
  <2>1. NamesAreTimes'
    BY <1>3, <1>12 DEF RoomIInv, Docs, NamesAreTimes
  <2>2. RoomsOfDocs'
    <3> SUFFICES ASSUME NEW d \in Live(doc') PROVE room'[doc'[d].room] \in {"open", "archived"}
      BY DEF RoomsOfDocs, Existing, Live
    <3>1. CASE d \in DOMAIN doc
      BY <1>2, <1>12, <3>1 DEF RoomIInv, Docs, RoomsOfDocs, Existing, Live
    <3>2. CASE d \notin DOMAIN doc
      BY <1>2, <1>3, <1>12, <3>2 DEF Live, Existing
    <3> QED
      BY <3>1, <3>2
  <2>3. DocumentHasItsFile'
    <3> SUFFICES ASSUME NEW d \in Live(doc')
                 PROVE  \/ file'[<<doc'[d].room, doc'[d].name>>] = d
                        \/ d \in cut'
                        \/ \E e \in DOMAIN doc' \ {d} :
                             doc'[e].room = doc'[d].room /\ doc'[e].at = doc'[d].at
      BY DEF DocumentHasItsFile, Live, Path
    <3>1. CASE d \notin DOMAIN doc
      BY <1>3, <1>8, <1>12, <3>1 DEF Live
    <3>2. CASE d \in DOMAIN doc
      <4>1. d \in Live(doc) /\ doc'[d] = doc[d] /\ doc[d] \in Doc /\ doc[d].name = doc[d].at
        BY <1>0, <1>12, <3>2, TableTypes DEF Live, RoomIInv, Docs, NamesAreTimes
      <4>2. doc[d].room \in Rooms /\ doc[d].name \in Times /\ Existing(doc[d].room)
        BY <4>1 DEF Doc, RoomIInv, Docs, RoomsOfDocs
      <4>3. CASE <<doc[d].room, doc[d].name>> # <<r, t>>
        <5>1. file'[<<doc[d].room, doc[d].name>>] = file[<<doc[d].room, doc[d].name>>]
          BY <1>7, <4>2, <4>3
        <5>2. \/ file[<<doc[d].room, doc[d].name>>] = d
              \/ d \in cut
              \/ \E e \in DOMAIN doc \ {d} : doc[e].room = doc[d].room /\ doc[e].at = doc[d].at
          BY <4>1 DEF RoomIInv, Docs, DocumentHasItsFile, Path
        <5> QED
          BY <1>2, <1>12, <4>1, <5>1, <5>2
      <4>4. CASE <<doc[d].room, doc[d].name>> = <<r, t>>
        <5>1. doc[d].room = r /\ doc[d].at = t /\ Existing(r)
          BY <4>1, <4>2, <4>4
        <5>2. Len(doc) + 1 \in DOMAIN doc' \ {d} /\ doc'[Len(doc) + 1] = new
          <6>1. doc' = Append(doc, new)
            BY <1>2, <5>1
          <6>2. Len(doc') = Len(doc) + 1 /\ doc'[Len(doc) + 1] = new
            BY <1>3, <1>4, <6>1, AppendProperties
          <6> QED
            BY <1>4, <1>9, <3>2, <6>2, LenProperties
        <5> QED
          BY <1>3, <4>1, <5>1, <5>2
      <4> QED
        BY <4>3, <4>4
    <3> QED
      BY <3>1, <3>2
  <2> QED
    BY <2>1, <2>2, <2>3 DEF Docs
<1>14. VisitsAreTrue'
  <2>1. \A d \in Live(doc) : d \in Live(doc') /\ doc'[d] = doc[d]
    BY <1>12 DEF Live
  <2> QED
    BY <1>2, <2>1 DEF RoomIInv, VisitsAreTrue, Live
<1> QED
  BY <1>10, <1>11, <1>13, <1>14 DEF RoomIInv

\* Unlinking touches one file; a live document of the same path was uploaded in
\* the same millisecond.
LEMMA UnlinkedFiles ==
    ASSUME RoomIInv, NEW d \in Live(doc), file' = Unlinked(d)
    PROVE  /\ file' \in [Rooms \X Times -> 0..Orphan]
           /\ \A c \in Live(doc) \ {d} :
                \/ file'[Path(c)] = file[Path(c)]
                \/ \E e \in DOMAIN doc \ {c} : doc[e].room = doc[c].room /\ doc[e].at = doc[c].at
<1>1. RoomsTypeOK /\ RoomAssumption
  BY DEF RoomIInv, Typed
<1>2. \A c \in Live(doc) :
        c \in DOMAIN doc /\ doc[c] \in Doc /\ doc[c].name = doc[c].at /\ Path(c) \in Rooms \X Times
  BY <1>1, TableTypes DEF Live, RoomIInv, Docs, NamesAreTimes, Path, Doc
<1>3. file \in [Rooms \X Times -> 0..Orphan] /\ NoFile \in 0..Orphan
  BY <1>1 DEF RoomsTypeOK, RoomAssumption, NoFile, Orphan
<1>4. file' \in [Rooms \X Times -> 0..Orphan]
  BY <1>3 DEF Unlinked
<1>5. ASSUME NEW c \in Live(doc) \ {d}
      PROVE  \/ file'[Path(c)] = file[Path(c)]
             \/ \E e \in DOMAIN doc \ {c} : doc[e].room = doc[c].room /\ doc[e].at = doc[c].at
  <2>1. CASE Path(c) # Path(d)
    BY <1>2, <1>3, <2>1 DEF Unlinked
  <2>2. CASE Path(c) = Path(d)
    <3>1. doc[d].room = doc[c].room /\ doc[d].name = doc[c].name
      BY <2>2 DEF Path
    <3> QED
      BY <1>2, <3>1
  <2> QED
    BY <2>1, <2>2
<1> QED
  BY <1>4, <1>5

\* DELETE /api/data-rooms/[id]/documents/[docId]
LEMMA DeleteDocStep == ASSUME RoomIInv, NEW d \in DOMAIN doc, DeleteDoc(d) PROVE RoomIInv'
<1>0. RoomsTypeOK /\ RoomAssumption
  BY DEF RoomIInv, Typed
<1>1. /\ d \in Live(doc) /\ file' = Unlinked(d) /\ doc' = Deleted(doc, {d}) /\ event' = Detached(d)
      /\ UNCHANGED <<room, link, visitor, parked, bodies, clock, cut>>
  BY DEF DeleteDoc
<1>2. doc' \in Seq(Doc) /\ Len(doc') = Len(doc)
  BY <1>0, <1>1, TablesDeleted
<1>3. /\ DOMAIN event' = DOMAIN event
      /\ \A e \in DOMAIN event :
           /\ event'[e] \in Event
           /\ event'[e].doc = IF event[e].doc = d THEN 0 ELSE event[e].doc
           /\ event'[e].visitor = event[e].visitor /\ event'[e].room = event[e].room
           /\ event'[e].open = event[e].open /\ event'[e].gone = event[e].gone
  <2>1. 0 \in 0..MaxDocs
    BY <1>0 DEF RoomAssumption
  <2>2. \A entry \in Event :
          /\ [entry EXCEPT !.doc = 0] \in Event
          /\ [entry EXCEPT !.doc = 0].doc = 0
          /\ [entry EXCEPT !.doc = 0].visitor = entry.visitor
          /\ [entry EXCEPT !.doc = 0].room = entry.room
          /\ [entry EXCEPT !.doc = 0].open = entry.open
          /\ [entry EXCEPT !.doc = 0].gone = entry.gone
    BY <2>1 DEF Event
  <2>3. \A e \in DOMAIN event : event[e] \in Event
    BY <1>0, TableTypes
  <2>4. /\ DOMAIN event' = DOMAIN event
        /\ \A e \in DOMAIN event :
             event'[e] = IF event[e].doc = d THEN [event[e] EXCEPT !.doc = 0] ELSE event[e]
    BY <1>1 DEF Detached
  <2> SUFFICES ASSUME NEW e \in DOMAIN event
               PROVE  /\ event'[e] \in Event
                      /\ event'[e].doc = IF event[e].doc = d THEN 0 ELSE event[e].doc
                      /\ event'[e].visitor = event[e].visitor
                      /\ event'[e].room = event[e].room
                      /\ event'[e].open = event[e].open
                      /\ event'[e].gone = event[e].gone
    BY <2>4
  <2>5. CASE event[e].doc = d
    BY <2>2, <2>3, <2>4, <2>5
  <2>6. CASE event[e].doc # d
    BY <2>3, <2>4, <2>6
  <2> QED
    BY <2>5, <2>6
<1>4. event' \in Seq(Event) /\ Len(event') = Len(event)
  <2>1. event' = [e \in DOMAIN event |-> event'[e]]
    BY <1>1 DEF Detached
  <2>2. event \in Seq(Event)
    BY <1>0, TableTypes
  <2> QED
    BY <1>3, <2>1, <2>2, RowsChanged
<1>5. file' \in [Rooms \X Times -> 0..Orphan]
  BY <1>1, UnlinkedFiles
<1>6. Typed'
  BY <1>0, <1>1, <1>2, <1>4, <1>5 DEF Typed, RoomsTypeOK, RoomAssumption
<1>7. ParkedFits'
  BY <1>1 DEF RoomIInv, ParkedFits
<1>8. Docs'
  <2>1. \A c \in Live(doc) \ {d} : room'[doc[c].room] \in {"open", "archived"}
    BY <1>1 DEF RoomIInv, Docs, RoomsOfDocs, Existing
  <2> QED
    BY <1>0, <1>1, <2>1, UnlinkedFiles, DocsGo DEF RoomIInv
<1>9. VisitsAreTrue'
  <2>1. \A c \in Live(doc) \ {d} : c \in Live(doc') /\ doc'[c] = doc[c]
    BY <1>0, <1>1, TablesDeleted DEF Live
  <2>2. \A e : e \in Live(event') <=> e \in Live(event)
    BY <1>3 DEF Live
  <2>3. Live(visitor') = Live(visitor) /\ visitor' = visitor
    BY <1>1 DEF Live
  <2>4. \A e \in Live(event) : e \in DOMAIN event
    BY DEF Live
  <2>5. ASSUME NEW e \in Live(event')
        PROVE  /\ event'[e].visitor \in Live(visitor')
               /\ event'[e].room = visitor'[event'[e].visitor].room
               /\ event'[e].doc # 0 =>
                    event'[e].doc \in Live(doc') /\ doc'[event'[e].doc].room = event'[e].room
    BY <1>3, <2>1, <2>2, <2>3, <2>4 DEF RoomIInv, VisitsAreTrue
  <2>6. ASSUME NEW e \in Live(event'), NEW f \in Live(event'),
               event'[e].open, event'[f].open, event'[e].doc # 0,
               event'[e].visitor = event'[f].visitor, event'[e].doc = event'[f].doc
        PROVE  e = f
    BY <1>3, <2>2, <2>4, <2>6 DEF RoomIInv, VisitsAreTrue
  <2>7. \A v, w \in Live(visitor') :
          visitor'[v].link = visitor'[w].link /\ visitor'[v].email = visitor'[w].email => v = w
    BY <2>3 DEF RoomIInv, VisitsAreTrue
  <2> QED
    BY <2>5, <2>6, <2>7 DEF VisitsAreTrue
<1> QED
  BY <1>6, <1>7, <1>8, <1>9 DEF RoomIInv

\* The file is gone and the row is not; the document is one that was cut short.
LEMMA DeleteCutShortStep == ASSUME RoomIInv, NEW d \in DOMAIN doc, DeleteCutShort(d) PROVE RoomIInv'
<1>0. RoomsTypeOK /\ RoomAssumption
  BY DEF RoomIInv, Typed
<1>1. /\ d \in Live(doc) /\ file' = Unlinked(d) /\ cut' = cut \cup {d}
      /\ parked' = [q \in Handlers |-> Free]
      /\ UNCHANGED <<room, link, doc, visitor, event, bodies, clock>>
  BY DEF DeleteCutShort, tables
<1>2. cut' \subseteq 1..MaxDocs
  <2>1. d \in 1..MaxDocs
    BY <1>0, TableTypes DEF RoomsTypeOK, RoomAssumption
  <2> QED
    BY <1>0, <1>1, <2>1 DEF RoomsTypeOK
<1>3. file' \in [Rooms \X Times -> 0..Orphan]
  BY <1>1, UnlinkedFiles
<1>4. Typed'
  BY <1>0, <1>1, <1>2, <1>3 DEF Typed, RoomsTypeOK, RoomAssumption
<1>5. ParkedFits'
  BY <1>1 DEF ParkedFits, Free
<1>6. NamesAreTimes' /\ RoomsOfDocs'
  BY <1>1 DEF RoomIInv, Docs, NamesAreTimes, RoomsOfDocs, Existing, Live
<1>7. DocumentHasItsFile'
  <2> SUFFICES ASSUME NEW c \in Live(doc)
               PROVE  \/ file'[Path(c)] = c
                      \/ c \in cut'
                      \/ \E e \in DOMAIN doc \ {c} :
                           doc[e].room = doc[c].room /\ doc[e].at = doc[c].at
    BY <1>1 DEF DocumentHasItsFile, Live, Path
  <2> QED
    BY <1>1, UnlinkedFiles DEF RoomIInv, Docs, DocumentHasItsFile
<1>8. VisitsAreTrue'
  BY <1>1, VisitsFrame DEF RoomIInv
<1> QED
  BY <1>4, <1>5, <1>6, <1>7, <1>8 DEF RoomIInv, Docs

---------------------------------------------------------------------------
(* Data rooms: links *)

\* Links come or change; no row of them goes.
LEMMA LinkStep ==
    ASSUME RoomIInv, link' \in Seq(Link), Len(link') <= MaxLinks, DOMAIN link \subseteq DOMAIN link',
           parked' \in [Handlers -> Parked \cup {Free}],
           \A k \in Handlers : parked'[k] \in {parked[k], Free},
           UNCHANGED <<room, doc, visitor, event, file, bodies, clock, cut>>
    PROVE  RoomIInv'
<1>1. Typed'
  BY DEF RoomIInv, Typed, RoomsTypeOK, RoomAssumption
<1>2. ParkedFits'
  BY NobodyParks DEF RoomIInv, RowsStay
<1>3. Docs'
  BY DocsFrame DEF RoomIInv, Typed, Existing
<1>4. VisitsAreTrue'
  BY VisitsFrame DEF RoomIInv
<1> QED
  BY <1>1, <1>2, <1>3, <1>4 DEF RoomIInv

\* POST /api/data-rooms/[id]/links
LEMMA LinkEndsStep == ASSUME RoomIInv, NEW q \in Handlers, LinkEnds(q) PROVE RoomIInv'
<1> DEFINE new == [room |-> parked[q].room, status |-> "open", gone |-> FALSE]
<1>0. RoomsTypeOK /\ RoomAssumption
  BY DEF RoomIInv, Typed
<1>1. /\ parked' = [parked EXCEPT ![q] = Free] /\ Len(link) < MaxLinks
      /\ link' = link \/ link' = Append(link, new)
      /\ UNCHANGED <<room, doc, visitor, event, file, bodies, clock, cut>>
  BY DEF LinkEnds, Answer
<1>2. new \in Link
  BY <1>0, ParkedKinds DEF LinkEnds, Answer, Link
<1>3. link \in Seq(Link) /\ Len(link) \in Nat /\ MaxLinks \in Nat /\ DOMAIN link = 1..Len(link)
  BY <1>0, TableTypes DEF RoomAssumption
<1> HIDE DEF new
<1>4. link' \in Seq(Link) /\ Len(link') <= MaxLinks /\ DOMAIN link \subseteq DOMAIN link'
  <2>1. CASE link' = Append(link, new)
    <3>1. link' \in Seq(Link) /\ Len(link') = Len(link) + 1
      BY <1>2, <1>3, <2>1, AppendProperties
    <3> QED
      BY <1>1, <1>3, <3>1, LenProperties
  <2> QED
    BY <1>1, <1>3, <2>1
<1> QED
  BY <1>0, <1>1, <1>4, NotParked, LinkStep

\* PUT /api/data-rooms/[id]/links/[linkId]; the link may be gone by now.
LEMMA SetLinkEndsStep ==
    ASSUME RoomIInv, NEW q \in Handlers, NEW given \in {"open", "closed", "expired", "unset"},
           SetLinkEnds(q, given)
    PROVE  RoomIInv'
<1> DEFINE l == parked[q].link
<1>0. RoomsTypeOK /\ link \in Seq(Link)
  BY TableTypes DEF RoomIInv, Typed
<1>1. /\ parked' = [parked EXCEPT ![q] = Free]
      /\ link' = link \/ link' = [link EXCEPT ![l].status = Updated(l, given)]
      /\ UNCHANGED <<room, doc, visitor, event, file, bodies, clock, cut>>
  BY DEF SetLinkEnds, Answer
<1>2. l \in DOMAIN link /\ link[l] \in Link
  BY <1>0, TableTypes DEF SetLinkEnds, Answer, RoomIInv, ParkedFits
<1>3. [link[l] EXCEPT !.status = Updated(l, given)] \in Link
  BY <1>2 DEF Link, Updated
<1>4. link' \in Seq(Link) /\ Len(link') = Len(link) /\ DOMAIN link' = DOMAIN link
  <2> HIDE DEF l
  <2>1. CASE link' = [link EXCEPT ![l] = [link[l] EXCEPT !.status = Updated(l, given)]]
    BY <1>0, <1>2, <1>3, <2>1, ExceptSeq
  <2> QED
    BY <1>0, <1>1, <2>1
<1>5. Len(link') <= MaxLinks
  BY <1>0, <1>4 DEF RoomsTypeOK
<1> QED
  BY <1>0, <1>1, <1>4, <1>5, NotParked, LinkStep

\* expires_at passes.
LEMMA ExpireStep == ASSUME RoomIInv, NEW l \in DOMAIN link, Expire(l) PROVE RoomIInv'
<1>0. RoomsTypeOK /\ link \in Seq(Link) /\ link[l] \in Link
  BY TableTypes DEF RoomIInv, Typed
<1>1. /\ link' = [link EXCEPT ![l] = [link[l] EXCEPT !.status = "expired"]]
      /\ UNCHANGED <<room, doc, visitor, event, file, parked, bodies, clock, cut>>
  BY DEF Expire
<1>2. [link[l] EXCEPT !.status = "expired"] \in Link
  BY <1>0 DEF Link
<1>3. link' \in Seq(Link) /\ Len(link') = Len(link) /\ DOMAIN link' = DOMAIN link
  BY <1>0, <1>1, <1>2, ExceptSeq
<1>4. Len(link') <= MaxLinks /\ parked \in [Handlers -> Parked \cup {Free}]
  BY <1>0, <1>3 DEF RoomsTypeOK
<1> QED
  BY <1>1, <1>3, <1>4, LinkStep

\* DELETE /api/data-rooms/[id]/links/[linkId]
LEMMA DeleteLinkStep == ASSUME RoomIInv, NEW l \in DOMAIN link, DeleteLink(l) PROVE RoomIInv'
<1> DEFINE V == {v \in DOMAIN visitor : visitor[v].link = l}
           E == {e \in DOMAIN event : event[e].visitor \in V}
<1>0. RoomsTypeOK /\ RoomAssumption
  BY DEF RoomIInv, Typed
<1>1. /\ link' = Deleted(link, {l}) /\ visitor' = Deleted(visitor, V) /\ event' = Deleted(event, E)
      /\ UNCHANGED <<room, doc, file, parked, bodies, clock, cut>>
  BY DEF DeleteLink
<1>2. \A e \in Live(event) : event[e].visitor \in V => e \in E
  BY DEF Live
<1> HIDE DEF V, E
<1>3. link' \in Seq(Link) /\ Len(link') = Len(link) /\ DOMAIN link' = DOMAIN link
  BY <1>0, <1>1, TablesDeleted
<1>4. /\ visitor' \in Seq(Visitor) /\ Len(visitor') = Len(visitor) /\ DOMAIN visitor' = DOMAIN visitor
      /\ \A v \in DOMAIN visitor : visitor'[v] = IF v \in V THEN Gone(visitor[v]) ELSE visitor[v]
  BY <1>0, <1>1, TablesDeleted
<1>5. event' \in Seq(Event) /\ Len(event') = Len(event)
  BY <1>0, <1>1, TablesDeleted
<1>6. Typed'
  BY <1>0, <1>1, <1>3, <1>4, <1>5 DEF Typed, RoomsTypeOK, RoomAssumption
<1>7. ParkedFits'
  <2>1. RowsStay
    BY <1>0, <1>3, <1>4, TableTypes, GoneRows DEF RowsStay
  <2> QED
    BY <1>1, <2>1, NobodyParks DEF RoomIInv
<1>8. Docs'
  BY <1>0, <1>1, DocsFrame DEF RoomIInv, Existing
<1>9. VisitsAreTrue'
  <2>1. doc' = Deleted(doc, {})
    <3>1. doc = [i \in 1..Len(doc) |-> doc[i]] /\ DOMAIN doc = 1..Len(doc)
      BY <1>0, TableTypes
    <3> QED
      BY <1>1, <3>1 DEF Deleted
  <2> QED
    BY <1>0, <1>1, <1>2, <2>1, VisitsGo DEF RoomIInv
<1> QED
  BY <1>6, <1>7, <1>8, <1>9 DEF RoomIInv

---------------------------------------------------------------------------
(* Data rooms: visitors *)

\* POST /api/room/[token]/enter: whoever is new to the link gets a row.
LEMMA EnterEndsStep ==
    ASSUME RoomIInv, NEW q \in Handlers, NEW email \in Emails, EnterEnds(q, email)
    PROVE  RoomIInv'
<1> DEFINE l == parked[q].link
           new == [link |-> l, room |-> link[l].room, email |-> email, gone |-> FALSE]
<1>0. RoomsTypeOK /\ RoomAssumption
  BY DEF RoomIInv, Typed
<1>1. /\ parked' = [parked EXCEPT ![q] = Free] /\ Len(visitor) < MaxVisitors
      /\ \/ visitor' = visitor
         \/ visitor' = Append(visitor, new) /\ Returning(l, email) = {}
      /\ UNCHANGED <<room, link, doc, event, file, bodies, clock, cut>>
  BY DEF EnterEnds, Answer
<1>2. l \in DOMAIN link /\ link[l] \in Link /\ l \in 1..MaxLinks
  BY <1>0, TableTypes, ParkedKinds DEF EnterEnds, Answer, RoomIInv, ParkedFits
<1>3. new \in Visitor /\ new.link = l /\ new.email = email
  BY <1>2 DEF Visitor, Link
<1>4. /\ visitor \in Seq(Visitor) /\ Len(visitor) \in Nat /\ MaxVisitors \in Nat
      /\ DOMAIN visitor = 1..Len(visitor)
  BY <1>0, TableTypes DEF RoomAssumption
<1> HIDE DEF l, new
<1>5. /\ visitor' \in Seq(Visitor) /\ Len(visitor') <= MaxVisitors
      /\ DOMAIN visitor \subseteq DOMAIN visitor'
      /\ \A v \in DOMAIN visitor : visitor'[v] = visitor[v]
      /\ \A v \in DOMAIN visitor' : v \notin DOMAIN visitor =>
           v = Len(visitor) + 1 /\ visitor'[v] = new /\ Returning(l, email) = {}
  <2>1. CASE visitor' = Append(visitor, new) /\ Returning(l, email) = {}
    <3>1. /\ visitor' \in Seq(Visitor) /\ Len(visitor') = Len(visitor) + 1
          /\ visitor'[Len(visitor) + 1] = new
          /\ \A v \in 1..Len(visitor) : visitor'[v] = visitor[v]
      BY <1>3, <1>4, <2>1, AppendProperties
    <3>2. DOMAIN visitor' = 1..(Len(visitor) + 1)
      BY <3>1, LenProperties
    <3> QED
      BY <1>1, <1>4, <2>1, <3>1, <3>2
  <2>2. CASE visitor' = visitor
    BY <1>1, <1>4, <2>2
  <2> QED
    BY <1>1, <2>1, <2>2
<1>6. Typed'
  BY <1>0, <1>1, <1>5, NotParked DEF Typed, RoomsTypeOK, RoomAssumption
<1>7. ParkedFits'
  BY <1>0, <1>1, <1>5, NotParked, NobodyParks DEF RoomIInv, RowsStay
<1>8. Docs'
  BY <1>0, <1>1, DocsFrame DEF RoomIInv, Existing
<1>9. VisitsAreTrue'
  <2>1. \A v \in Live(visitor) : v \in Live(visitor') /\ visitor'[v] = visitor[v]
    BY <1>5 DEF Live
  <2>2. \A v \in Live(visitor') :
          \/ v \in Live(visitor) /\ visitor'[v] = visitor[v]
          \/ v = Len(visitor) + 1 /\ visitor'[v] = new /\ Returning(l, email) = {}
    BY <1>5 DEF Live
  <2>3. Returning(l, email) = {} =>
          \A v \in Live(visitor) : ~(visitor[v].link = l /\ visitor[v].email = email)
    BY DEF Returning
  <2>4. ASSUME NEW v \in Live(visitor'), NEW w \in Live(visitor'),
               visitor'[v].link = visitor'[w].link, visitor'[v].email = visitor'[w].email
        PROVE  v = w
    BY <1>3, <2>2, <2>3, <2>4 DEF RoomIInv, VisitsAreTrue
  <2>5. Live(event') = Live(event) /\ Live(doc') = Live(doc) /\ event' = event /\ doc' = doc
    BY <1>1 DEF Live
  <2>6. ASSUME NEW e \in Live(event)
        PROVE  /\ event[e].visitor \in Live(visitor')
               /\ event[e].room = visitor'[event[e].visitor].room
    BY <2>1 DEF RoomIInv, VisitsAreTrue
  <2> QED
    BY <2>4, <2>5, <2>6 DEF RoomIInv, VisitsAreTrue
<1> QED
  BY <1>6, <1>7, <1>8, <1>9 DEF RoomIInv

\* recordEvent, for a visitor that is in the table and a document of the room:
\* the page that was open for them is closed before the next one is.
LEMMA RecordedStep ==
    ASSUME RoomIInv, NEW v \in Live(visitor), NEW d \in Live(doc), NEW r \in Rooms,
           NEW type \in {"page", "timed", "other"}, visitor[v].room = r, doc[d].room = r,
           Len(event) < MaxEvents, event' = Recorded(v, r, d, type),
           UNCHANGED <<doc, visitor>>
    PROVE  /\ event' \in Seq(Event) /\ Len(event') <= MaxEvents
           /\ VisitsAreTrue'
<1> DEFINE rest == IF type = "other" THEN event ELSE Closed(v, d)
           new == [visitor |-> v, doc |-> d, room |-> r, open |-> type = "page", gone |-> FALSE]
<1>0. RoomsTypeOK /\ RoomAssumption
  BY DEF RoomIInv, Typed
<1>1. v \in 1..MaxVisitors /\ d \in 1..MaxDocs
  BY <1>0, TableTypes DEF Live, RoomsTypeOK, RoomAssumption
<1>2. /\ new \in Event /\ new.visitor = v /\ new.doc = d /\ new.room = r
      /\ new.open = (type = "page") /\ ~new.gone
  BY <1>1, <1>0 DEF Event, RoomAssumption
<1>3. /\ event \in Seq(Event) /\ Len(event) \in Nat /\ MaxEvents \in Nat
      /\ DOMAIN event = 1..Len(event) /\ \A e \in DOMAIN event : event[e] \in Event
  BY <1>0, TableTypes DEF RoomAssumption
<1>4. \A entry \in Event :
        /\ [entry EXCEPT !.open = FALSE] \in Event
        /\ [entry EXCEPT !.open = FALSE].open = FALSE
        /\ [entry EXCEPT !.open = FALSE].doc = entry.doc
        /\ [entry EXCEPT !.open = FALSE].visitor = entry.visitor
        /\ [entry EXCEPT !.open = FALSE].room = entry.room
        /\ [entry EXCEPT !.open = FALSE].gone = entry.gone
  BY DEF Event
\* At most one page is open, so it is the latest that is.
<1>5. \A e, f \in OpenViews(v, d) : e = f
  <2>1. d # 0
    BY <1>1
  <2> QED
    BY <2>1 DEF OpenViews, RoomIInv, VisitsAreTrue
<1>6. \A e \in OpenViews(v, d) : \A f \in OpenViews(v, d) : f <= e
  <2>1. \A e \in OpenViews(v, d) : e \in Nat
    BY <1>3 DEF OpenViews, Live
  <2> QED
    BY <1>5, <2>1
<1>7. /\ DOMAIN Closed(v, d) = DOMAIN event
      /\ Closed(v, d) = [e \in DOMAIN event |-> Closed(v, d)[e]]
      /\ \A e \in DOMAIN event :
           Closed(v, d)[e] =
             IF e \in OpenViews(v, d) THEN [event[e] EXCEPT !.open = FALSE] ELSE event[e]
  BY <1>6 DEF Closed
<1>8. ASSUME NEW e \in DOMAIN event
      PROVE  /\ Closed(v, d)[e] \in Event
             /\ Closed(v, d)[e].doc = event[e].doc /\ Closed(v, d)[e].visitor = event[e].visitor
             /\ Closed(v, d)[e].room = event[e].room /\ Closed(v, d)[e].gone = event[e].gone
             /\ Closed(v, d)[e].open => event[e].open /\ e \notin OpenViews(v, d)
  <2>1. CASE e \in OpenViews(v, d)
    BY <1>3, <1>4, <1>7, <2>1
  <2>2. CASE e \notin OpenViews(v, d)
    BY <1>3, <1>7, <2>2
  <2> QED
    BY <2>1, <2>2
<1>9. Closed(v, d) \in Seq(Event) /\ Len(Closed(v, d)) = Len(event)
  BY <1>3, <1>7, <1>8, RowsChanged
<1>10. /\ rest \in Seq(Event) /\ Len(rest) = Len(event)
       /\ \A e \in DOMAIN event :
            /\ rest[e].doc = event[e].doc /\ rest[e].visitor = event[e].visitor
            /\ rest[e].room = event[e].room /\ rest[e].gone = event[e].gone
            /\ rest[e].open => event[e].open /\ (type # "other" => e \notin OpenViews(v, d))
  <2>1. CASE type = "other"
    BY <1>3, <2>1
  <2>2. CASE type # "other"
    BY <1>8, <1>9, <2>2
  <2> QED
    BY <2>1, <2>2
<1>11. event' = Append(rest, new)
  BY DEF Recorded
<1> HIDE DEF rest, new
<1>12. /\ event' \in Seq(Event) /\ Len(event') = Len(event) + 1 /\ event'[Len(event) + 1] = new
       /\ \A e \in DOMAIN event : event'[e] = rest[e]
  BY <1>2, <1>3, <1>10, <1>11, AppendProperties
<1>13. DOMAIN event' = 1..(Len(event) + 1)
  BY <1>12, LenProperties
<1>14. \A e \in Live(event') :
         \/ e \in Live(event) /\ e \in DOMAIN event
         \/ e = Len(event) + 1 /\ event'[e] = new
  BY <1>3, <1>10, <1>12, <1>13 DEF Live
<1>15. Live(visitor') = Live(visitor) /\ Live(doc') = Live(doc) /\ visitor' = visitor /\ doc' = doc
  BY DEF Live
<1>16. ASSUME NEW e \in Live(event')
       PROVE  /\ event'[e].visitor \in Live(visitor)
              /\ event'[e].room = visitor[event'[e].visitor].room
              /\ event'[e].doc # 0 =>
                   event'[e].doc \in Live(doc) /\ doc[event'[e].doc].room = event'[e].room
  <2>1. CASE e \in Live(event) /\ e \in DOMAIN event
    BY <1>10, <1>12, <2>1 DEF RoomIInv, VisitsAreTrue
  <2>2. CASE event'[e] = new
    BY <1>2, <2>2
  <2> QED
    BY <1>14, <2>1, <2>2
\* A row that was there is open beside the new one only if it is of another
\* visitor or document.
<1>17. ASSUME NEW e \in Live(event), e \in DOMAIN event, rest[e].open, new.open,
              rest[e].visitor = v, rest[e].doc = d
       PROVE  FALSE
  <2>1. type # "other"
    BY <1>2, <1>17
  <2>2. e \notin OpenViews(v, d) /\ event[e].open
    BY <1>10, <1>17, <2>1
  <2>3. event[e].visitor = v /\ event[e].doc = d
    BY <1>10, <1>17
  <2> QED
    BY <2>2, <2>3 DEF OpenViews
<1>18. ASSUME NEW e \in Live(event'), NEW f \in Live(event'),
              event'[e].open, event'[f].open, event'[e].doc # 0,
              event'[e].visitor = event'[f].visitor, event'[e].doc = event'[f].doc
       PROVE  e = f
  <2>1. CASE e \in Live(event) /\ e \in DOMAIN event /\ f \in Live(event) /\ f \in DOMAIN event
    <3>1. event'[e] = rest[e] /\ event'[f] = rest[f]
      BY <1>12, <2>1
    <3>2. /\ event[e].open /\ event[f].open /\ event[e].doc # 0
          /\ event[e].visitor = event[f].visitor /\ event[e].doc = event[f].doc
      BY <1>10, <1>18, <2>1, <3>1
    <3> QED
      BY <2>1, <3>2 DEF RoomIInv, VisitsAreTrue
  <2>2. CASE e \in Live(event) /\ e \in DOMAIN event /\ event'[f] = new
    BY <1>2, <1>12, <1>17, <1>18, <2>2
  <2>3. CASE event'[e] = new /\ f \in Live(event) /\ f \in DOMAIN event
    BY <1>2, <1>12, <1>17, <1>18, <2>3
  <2> QED
    BY <1>14, <2>1, <2>2, <2>3
<1>19. VisitsAreTrue'
  BY <1>15, <1>16, <1>18 DEF RoomIInv, VisitsAreTrue
<1> QED
  BY <1>3, <1>12, <1>19

\* POST /api/room/[token]/events; the visitor may be gone by now.
LEMMA EventEndsStep ==
    ASSUME RoomIInv, NEW q \in Handlers, NEW d \in DOMAIN doc, NEW type \in {"page", "timed", "other"},
           EventEnds(q, d, type)
    PROVE  RoomIInv'
<1> DEFINE v == parked[q].visitor
           r == parked[q].room
<1>0. RoomsTypeOK /\ RoomAssumption
  BY DEF RoomIInv, Typed
<1>1. /\ parked' = [parked EXCEPT ![q] = Free] /\ Len(event) < MaxEvents
      /\ d \in Live(doc) /\ doc[d].room = r
      /\ event' = IF visitor[v].gone THEN event ELSE Recorded(v, r, d, type)
      /\ UNCHANGED <<room, link, doc, visitor, file, bodies, clock, cut>>
  BY DEF EventEnds, Answer
<1>2. v \in DOMAIN visitor /\ visitor[v].room = r /\ r \in Rooms
  BY <1>0, ParkedKinds DEF EventEnds, Answer, RoomIInv, ParkedFits
<1> HIDE DEF v, r
<1>3. event' \in Seq(Event) /\ Len(event') <= MaxEvents /\ VisitsAreTrue'
  <2>1. CASE visitor[v].gone
    BY <1>0, <1>1, <2>1, VisitsFrame DEF RoomsTypeOK, RoomIInv
  <2>2. CASE ~visitor[v].gone
    BY <1>1, <1>2, <2>2, RecordedStep DEF Live
  <2> QED
    BY <2>1, <2>2
<1>4. Typed'
  BY <1>0, <1>1, <1>3, NotParked DEF Typed, RoomsTypeOK, RoomAssumption
<1>5. ParkedFits'
  BY <1>0, <1>1, NotParked, NobodyParks DEF RoomIInv, RowsStay
<1>6. Docs'
  BY <1>0, <1>1, DocsFrame DEF RoomIInv, Existing
<1> QED
  BY <1>3, <1>4, <1>5, <1>6 DEF RoomIInv

\* GET /api/room/[token]/documents/[docId]/file records what it serves.
LEMMA ServeStep ==
    ASSUME RoomIInv, NEW v \in DOMAIN visitor, NEW l \in DOMAIN link, NEW d \in DOMAIN doc,
           Serve(v, l, d)
    PROVE  RoomIInv'
<1>0. RoomsTypeOK /\ RoomAssumption
  BY DEF RoomIInv, Typed
<1>1. /\ v \in Live(visitor) /\ d \in Live(doc) /\ visitor[v].room = doc[d].room
      /\ Len(event) < MaxEvents /\ event' = Recorded(v, doc[d].room, d, "other")
      /\ UNCHANGED <<room, link, doc, visitor, file, parked, bodies, clock, cut>>
  BY DEF Serve, InRoom
<1>2. doc[d].room \in Rooms
  BY <1>0, TableTypes DEF Doc
<1>3. event' \in Seq(Event) /\ Len(event') <= MaxEvents /\ VisitsAreTrue'
  BY <1>1, <1>2, RecordedStep
<1>4. Typed'
  BY <1>0, <1>1, <1>3 DEF Typed, RoomsTypeOK, RoomAssumption
<1>5. ParkedFits'
  BY <1>1 DEF RoomIInv, ParkedFits
<1>6. Docs'
  BY <1>0, <1>1, DocsFrame DEF RoomIInv, Existing
<1> QED
  BY <1>3, <1>4, <1>5, <1>6 DEF RoomIInv

---------------------------------------------------------------------------
(* Data rooms: all steps *)

\* Requests are refused or lost, time passes, or nothing happens.
LEMMA TablesStay ==
    ASSUME RoomIInv, UNCHANGED <<tables, file, bodies, cut>>, clock' \in Times,
           parked' \in [Handlers -> Parked \cup {Free}],
           \A k \in Handlers : parked'[k] \in {parked[k], Free}
    PROVE  RoomIInv'
<1>1. Typed'
  BY DEF RoomIInv, Typed, RoomsTypeOK, RoomAssumption, tables
<1>2. ParkedFits'
  BY NobodyParks DEF RoomIInv, RowsStay, tables
<1>3. Docs'
  BY DocsFrame DEF RoomIInv, Typed, tables, Existing
<1>4. VisitsAreTrue'
  BY VisitsFrame DEF RoomIInv, tables
<1> QED
  BY <1>1, <1>2, <1>3, <1>4 DEF RoomIInv

LEMMA SurroundingsStep ==
    ASSUME RoomIInv, (\E q \in Handlers : Refuse(q)) \/ Restart \/ Tick \/ UNCHANGED roomsVars
    PROVE  RoomIInv'
<1>0. RoomsTypeOK /\ clock \in Times /\ parked \in [Handlers -> Parked \cup {Free}]
  BY DEF RoomIInv, Typed, RoomsTypeOK
<1>1. ASSUME NEW q \in Handlers, Refuse(q) PROVE RoomIInv'
  BY <1>0, <1>1, NotParked, TablesStay DEF Refuse
<1>2. CASE Restart
  <2>1. /\ parked' \in [Handlers -> Parked \cup {Free}]
        /\ \A k \in Handlers : parked'[k] \in {parked[k], Free}
    BY <1>2 DEF Restart
  <2> QED
    BY <1>0, <1>2, <2>1, TablesStay DEF Restart
<1>3. CASE Tick
  <2>1. clock' \in Times
    BY <1>0, <1>3 DEF Tick, Times, RoomIInv, Typed, RoomAssumption
  <2> QED
    BY <1>0, <1>3, <2>1, TablesStay DEF Tick
<1>4. CASE UNCHANGED roomsVars
  BY <1>0, <1>4, TablesStay DEF roomsVars
<1> QED
  BY <1>1, <1>2, <1>3, <1>4

\* A request that begins has found what it is about.
LEMMA BeginsStep ==
    ASSUME RoomIInv, NEW q \in Handlers
    PROVE  /\ \A r \in Rooms : UploadBegins(q, r) \/ LinkBegins(q, r) => RoomIInv'
           /\ \A l \in DOMAIN link : SetLinkBegins(q, l) \/ EnterBegins(q, l) => RoomIInv'
           /\ \A v \in DOMAIN visitor, l \in DOMAIN link : EventBegins(q, v, l) => RoomIInv'
<1>0. RoomsTypeOK /\ RoomAssumption
  BY DEF RoomIInv, Typed
<1>1. ASSUME NEW r \in Rooms, UploadBegins(q, r) \/ LinkBegins(q, r) PROVE RoomIInv'
  <2>1. PICK kind \in {"upload", "link"} : Park(q, [kind |-> kind, room |-> r])
    BY <1>1 DEF UploadBegins, LinkBegins
  <2> DEFINE request == [kind |-> kind, room |-> r]
  <2>2. request \in Parked /\ request.kind \in {"upload", "link"}
    BY DEF Parked
  <2>3. UNCHANGED <<tables, file, clock, cut>>
    BY <1>1 DEF UploadBegins, LinkBegins
  <2> HIDE DEF request
  <2> QED
    BY <2>1, <2>2, <2>3, ParkStep DEF request
<1>2. ASSUME NEW l \in DOMAIN link, SetLinkBegins(q, l) \/ EnterBegins(q, l) PROVE RoomIInv'
  <2>1. PICK kind \in {"setlink", "enter"} : Park(q, [kind |-> kind, link |-> l])
    BY <1>2 DEF SetLinkBegins, EnterBegins
  <2> DEFINE request == [kind |-> kind, link |-> l]
  <2>2. request \in Parked /\ request.kind \in {"setlink", "enter"} /\ request.link = l
    <3>1. l \in 1..MaxLinks
      BY <1>0, TableTypes DEF RoomsTypeOK, RoomAssumption
    <3> QED
      BY <3>1 DEF Parked
  <2>3. UNCHANGED <<tables, file, clock, cut>>
    BY <1>2 DEF SetLinkBegins, EnterBegins
  <2>4. Park(q, request)
    BY <2>1
  <2> HIDE DEF request
  <2> QED
    BY <2>2, <2>3, <2>4, ParkStep
<1>3. ASSUME NEW v \in DOMAIN visitor, NEW l \in DOMAIN link, EventBegins(q, v, l) PROVE RoomIInv'
  <2> DEFINE request == [kind |-> "event", visitor |-> v, room |-> link[l].room]
  <2>1. Park(q, request) /\ UNCHANGED <<tables, file, clock, cut>>
        /\ visitor[v].room = link[l].room
    BY <1>3 DEF EventBegins, InRoom
  <2>2. /\ request \in Parked /\ request.kind = "event"
        /\ request.visitor = v /\ request.room = visitor[v].room
    <3>1. v \in 1..MaxVisitors
      BY <1>0, TableTypes DEF RoomsTypeOK, RoomAssumption
    <3>2. link[l].room \in Rooms
      BY <1>0, TableTypes DEF Link
    <3> QED
      BY <2>1, <3>1, <3>2 DEF Parked
  <2> HIDE DEF request
  <2> QED
    BY <2>1, <2>2, ParkStep
<1> QED
  BY <1>1, <1>2, <1>3

LEMMA RoomInductive == RoomIInv /\ [RoomsNext]_roomsVars => RoomIInv'
<1> SUFFICES ASSUME RoomIInv, [RoomsNext]_roomsVars PROVE RoomIInv'
  OBVIOUS
<1>1. ASSUME NEW r \in Rooms,
             CreateRoom(r) \/ \E status \in {"open", "archived"} : SetRoom(r, status)
      PROVE  RoomIInv'
  BY <1>1, RoomStep DEF CreateRoom, SetRoom, Existing
<1>2. ASSUME NEW r \in Rooms, DeleteRoom(r) PROVE RoomIInv'
  BY <1>2, DeleteRoomStep
<1>3. ASSUME NEW r \in Rooms, NEW q \in Handlers, UploadBegins(q, r) \/ LinkBegins(q, r) PROVE RoomIInv'
  BY <1>3, BeginsStep
<1>4. ASSUME NEW d \in DOMAIN doc, DeleteDoc(d) \/ DeleteCutShort(d) PROVE RoomIInv'
  BY <1>4, DeleteDocStep, DeleteCutShortStep
<1>5. ASSUME NEW l \in DOMAIN link, Expire(l) \/ DeleteLink(l) PROVE RoomIInv'
  BY <1>5, ExpireStep, DeleteLinkStep
<1>6. ASSUME NEW l \in DOMAIN link, NEW q \in Handlers, SetLinkBegins(q, l) \/ EnterBegins(q, l)
      PROVE  RoomIInv'
  BY <1>6, BeginsStep
<1>7. ASSUME NEW l \in DOMAIN link, NEW v \in DOMAIN visitor,
             \/ \E q \in Handlers : EventBegins(q, v, l)
             \/ \E d \in DOMAIN doc : Serve(v, l, d)
      PROVE  RoomIInv'
  BY <1>7, BeginsStep, ServeStep
<1>8. ASSUME NEW q \in Handlers, UploadNamed(q) \/ UploadEnds(q) \/ LinkEnds(q) PROVE RoomIInv'
  BY <1>8, UploadNamedStep, UploadEndsStep, LinkEndsStep
<1>9. ASSUME NEW q \in Handlers,
             \/ \E given \in {"open", "closed", "expired", "unset"} : SetLinkEnds(q, given)
             \/ \E email \in Emails : EnterEnds(q, email)
             \/ \E d \in DOMAIN doc, type \in {"page", "timed", "other"} : EventEnds(q, d, type)
      PROVE  RoomIInv'
  BY <1>9, SetLinkEndsStep, EnterEndsStep, EventEndsStep
<1>10. CASE (\E q \in Handlers : Refuse(q)) \/ Restart \/ Tick \/ UNCHANGED roomsVars
  BY <1>10, SurroundingsStep
<1> QED
  BY <1>1, <1>2, <1>3, <1>4, <1>5, <1>6, <1>7, <1>8, <1>9, <1>10 DEF RoomsNext

\* The inductive invariant holds in every state.
LEMMA RoomInvariance == RoomsSpec => []RoomIInv
  BY RoomInit, RoomInductive, PTL DEF RoomsSpec

\* Rooms, tables, files and parked requests have their types, whatever is
\* deleted while a request waits for its body.
THEOREM RoomsTypeCorrect == RoomsSpec => []RoomsTypeOK
<1>1. RoomIInv => RoomsTypeOK
  BY DEF RoomIInv, Typed
<1> QED
  BY <1>1, RoomInvariance, PTL

\* However uploads and deletions of documents and rooms overlap, a document that
\* is listed keeps the file that was uploaded for it.
THEOREM FilesStayTrue == RoomsSpec => []DocumentHasItsFile
<1>1. RoomIInv => DocumentHasItsFile
  BY DEF RoomIInv, Docs
<1> QED
  BY <1>1, RoomInvariance, PTL

\* The analytics count every visitor once, and every event is of rows that are
\* still there.
THEOREM VisitsStayTrue == RoomsSpec => []VisitsAreTrue
<1>1. RoomIInv => VisitsAreTrue
  BY DEF RoomIInv
<1> QED
  BY <1>1, RoomInvariance, PTL
=============================================================================
