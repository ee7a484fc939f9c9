-------------------------- MODULE ApprovedChanges --------------------------
(***************************************************************************)
(* What provisioning promises of the changes it makes to a machine.  A     *)
(* change is requested once and is started only with the consent of a      *)
(* second person.  The machine is asked for its steps one after the other: *)
(* a step only when those before it have been carried out.  An attempt may *)
(* be given up while the machine still works for it and be started again   *)
(* from the first step: what was carried out stays, and is never skipped.  *)
(* A change is completed only when all its steps have been carried out,    *)
(* and an attempt nobody attends to any more never ends.                   *)
(* Changes are independent: any number of them may move in a step.         *)
(***************************************************************************)
EXTENDS Naturals

CONSTANT Changes

VARIABLES
    phase,    \* "none", "open", "running", "stranded", "completed", "cancelled"
    length,   \* number of steps to be made on the machine; 0 for a dry run
    consent,  \* has somebody other than the requester approved?
    asked,    \* steps the machine has been asked for and has not answered
    progress  \* the steps 1..progress have been carried out

changes == <<phase, length, consent, asked, progress>>

Init ==
    /\ phase = [c \in Changes |-> "none"]
    /\ length = [c \in Changes |-> 0]
    /\ consent = [c \in Changes |-> FALSE]
    /\ asked = [c \in Changes |-> {}]
    /\ progress = [c \in Changes |-> 0]

Moves(c, from, to) == phase[c] = from /\ phase'[c] = to
RequestKept(c) == length'[c] = length[c] /\ consent'[c] = consent[c]
MachineKept(c) == asked'[c] = asked[c] /\ progress'[c] = progress[c]

Request(c) ==
    /\ Moves(c, "none", "open")
    /\ length'[c] \in Nat
    /\ consent'[c] = FALSE
    /\ MachineKept(c)

\* Consent is given or taken back, but not while the change is being made.
Review(c) ==
    /\ Moves(c, "open", "open")
    /\ consent'[c] \in BOOLEAN
    /\ length'[c] = length[c]
    /\ MachineKept(c)

Withdraw(c) == Moves(c, "open", "cancelled") /\ RequestKept(c) /\ MachineKept(c)

Start(c) ==
    /\ Moves(c, "open", "running")
    /\ length[c] > 0 => consent[c]
    /\ asked'[c] = asked[c] \cup (1..length[c] \cap {1})
    /\ progress'[c] = progress[c]
    /\ RequestKept(c)

\* The attempt fails, or loses who attends to it.
GiveUp(c) ==
    /\ Moves(c, "running", "open") \/ Moves(c, "running", "stranded")
    /\ RequestKept(c)
    /\ MachineKept(c)

\* A dry run has come to its end.
Rehearsed(c) ==
    /\ Moves(c, "running", "completed")
    /\ length[c] = 0
    /\ RequestKept(c)
    /\ MachineKept(c)

\* The machine ends its work on step s, which it may have been asked for twice.
Answered(c, s, next) ==
    /\ s \in asked[c]
    /\ asked'[c] \in {asked[c] \cup next, (asked[c] \ {s}) \cup next}
    /\ RequestKept(c)

\* Step s has been carried out, for the first time or again.
CarriedOut(c, s) ==
    /\ s <= progress[c] + 1
    /\ progress'[c] = IF s > progress[c] THEN s ELSE progress[c]

NextStep(c, s) ==
    /\ Moves(c, "running", "running")
    /\ s < length[c]
    /\ Answered(c, s, {s + 1})
    /\ CarriedOut(c, s)

LastStep(c, s) ==
    /\ Moves(c, "running", "completed")
    /\ s = length[c]
    /\ Answered(c, s, {})
    /\ CarriedOut(c, s)
    /\ progress'[c] = length[c]

\* The step fails, or is one of an attempt that is not waited for any more.
OtherAnswer(c, s) ==
    /\ Answered(c, s, {})
    /\ CarriedOut(c, s) \/ progress'[c] = progress[c]
    /\ \/ phase'[c] = phase[c]
       \/ Moves(c, "running", "open") /\ progress'[c] = progress[c]
       \/ Moves(c, "running", "stranded")

Next ==
    \A c \in Changes :
        \/ phase'[c] = phase[c] /\ RequestKept(c) /\ MachineKept(c)
        \/ Request(c) \/ Review(c) \/ Withdraw(c) \/ Start(c) \/ GiveUp(c) \/ Rehearsed(c)
        \/ \E s \in 1..length[c] : NextStep(c, s) \/ LastStep(c, s) \/ OtherAnswer(c, s)

Spec == Init /\ [][Next]_changes
=============================================================================
